---- MODULE Spec2Model ----
(***************************************************************************)
(* Simulation and scoring engine of the procurement simulator: the task    *)
(* lifecycle (TaskService), the inventory ledger (InventoryService), the   *)
(* order processor and price negotiation (OrderService) and the market     *)
(* simulation (MarketService) over the record store (DatabaseStorage).     *)
(* Tables are sequences of rows, as the store keeps them; money is kept in *)
(* hundredths of the currency unit, the scale of the decimal(15,2)         *)
(* columns; the negotiation and the market compute in JavaScript numbers.  *)
(***************************************************************************)
EXTENDS Integers, Sequences, FiniteSets, TLC

VARIABLES
    users,              \* table users: the ids of the students
    trainingTasks,      \* task id -> [initialBudget, durationDays]
    studentProgress,    \* table student_progress
    inventoryRecords,   \* table inventory_records
    orders,             \* table orders (a row's id is its position)
    financialRecords,   \* table financial_records
    evaluationRecords,  \* table evaluation_records
    marketData,         \* table market_data
    negotiation,        \* the negotiation request and the answer to it
    calls,              \* the calls that run storage call by storage call
    last,               \* the last call: operation, arguments, outcome
    nops                \* number of calls made so far

storeVars == <<studentProgress, inventoryRecords, orders, financialRecords, evaluationRecords>>
vars == <<users, trainingTasks, studentProgress, inventoryRecords, orders, financialRecords,
          evaluationRecords, marketData, negotiation, calls, last, nops>>

---------------------------------------------------------------------------
(* Bounds and input sets *)

\* calls per run: with one (userId, taskId), and with two of them
MaxOps == 4
MaxOpsTwoKeys == 3

Users == {"u1"}
TwoUsers == {"u1", "u2"}
ExistingTasks == {"t1"}
TwoTasks == {"t1", "t2"}
\* the task ids a request may name: those of the table and one that names no task
TaskIds == DOMAIN trainingTasks \cup {"t0"}
Products == {"p1", "p2"}
ExistingSuppliers == {"s1"}
SupplierIds == {"s1", "s0"}
Quantities == {1, 2}
\* budget 50.00; unit cost 25.00, so that two units cost exactly the budget;
\* unit price 30.00
Budgets == {5000}
Durations == {1, 3}
UnitCosts == {2500}
UnitPrices == {3000}

\* negotiation requests: product ids with one that names no product, catalogue
\* prices in hundredths (100.00 and 80.00), quantities around the cap of the
\* quantity factor, requested prices in tenths on both sides of the bands
ProductIds == {"p1", "p2", "p0"}
ProductUnitPrices == [p \in Products |-> IF p = "p1" THEN 10000 ELSE 8000]
NegotiationQuantities == {0, 20, 50, 100, 150}
RequestedPrices == {600, 640, 664, 680, 700, 750, 780, 798, 800, 830, 848, 850, 1000, 1050}

\* market requests: two categories; fluctuations in tenths, from -10 (the least
\* value of Math.random() * 20 - 10) to 9.9, with a half that Math.round
\* rounds up; the snapshots a run may start from, as <<demandLevel,
\* competitionLevel, priceIndex in hundredths>>, next to the ends of the ranges,
\* at the ends (as the second snapshot becomes with fluctuations -10 and 9.9)
\* and in the middle
MaxMarketOps == 1
Categories == {"c1", "c2"}
Fluctuations == {0 - 100, 5, 99}
InitialLevels == {<<95, 5, 200>>, <<5, 95, 50>>, <<0, 100, 50>>, <<50, 50, 100>>, <<100, 100, 150>>}

\* An item of a request.  Its unit price is a JavaScript number, which need not be
\* a whole number of hundredths: the price is unitPrice / divisor hundredths.
PricedItem(p, q, price, divisor) ==
    [productId |-> p, quantity |-> q, unitPrice |-> price, divisor |-> divisor]

Item(p, q, price) == PricedItem(p, q, price, 1)

PurchaseItemLists ==
    { <<Item("p1", 2, 2500)>>,
      <<Item("p1", 1, 2500), Item("p2", 1, 2500)>> }

\* the second list names p1 twice
SaleItemLists ==
    { <<Item("p1", 1, 3000)>>,
      <<Item("p1", 2, 3000), Item("p1", 1, 3000)>>,
      <<Item("p1", 1, 3000), Item("p2", 1, 3000)>> }

---------------------------------------------------------------------------
(* Helpers *)

Min(a, b) == IF a <= b THEN a ELSE b
Max(a, b) == IF a >= b THEN a ELSE b

RECURSIVE SumSeq(_)
SumSeq(s) == IF s = <<>> THEN 0 ELSE Head(s) + SumSeq(Tail(s))

\* Array.prototype.find over the elements that satisfy the test: the first
\* of them, as a sequence of length 0 (undefined) or 1
Find(hits) == IF hits = <<>> THEN <<>> ELSE <<Head(hits)>>

\* index of the first TRUE in a sequence of booleans, 0 when none
FirstIndex(matches) ==
    IF \E i \in 1..Len(matches) : matches[i]
    THEN CHOOSE i \in 1..Len(matches) : matches[i] /\ \A j \in 1..(i - 1) : ~matches[j]
    ELSE 0

\* A decimal(15,2) column stores the value n/d (in hundredths) rounded to a
\* whole hundredth, half away from zero (PostgreSQL numeric rounding).
ToDecimal2(n, d) ==
    IF n >= 0 THEN (2 * n + d) \div (2 * d)
    ELSE 0 - ((2 * (0 - n) + d) \div (2 * d))

\* Math.round of the rational n/d, d > 0: the floor of n/d + 1/2
MathRound(n, d) == (2 * n + d) \div (2 * d)

Store == [progress |-> studentProgress, inventory |-> inventoryRecords,
          orders |-> orders, financial |-> financialRecords,
          evaluations |-> evaluationRecords]

---------------------------------------------------------------------------
(* JavaScript numbers: IEEE 754 binary64, every operation rounded to the    *)
(* nearest value, ties to even.  A number is [neg, m, e], the value         *)
(* (-1)^neg * m * 2^e; the magnitude m is a natural of any size, kept as a  *)
(* little-endian sequence of limbs.                                         *)

Limb == 2^15

Zeros(n) == [i \in 1..n |-> 0]

LimbAt(a, i) == IF i <= Len(a) THEN a[i] ELSE 0

RECURSIVE BigNorm(_)
BigNorm(a) ==
    IF a # <<>> /\ a[Len(a)] = 0 THEN BigNorm(SubSeq(a, 1, Len(a) - 1)) ELSE a

RECURSIVE BigFromInt(_)
BigFromInt(n) == IF n = 0 THEN <<>> ELSE <<n % Limb>> \o BigFromInt(n \div Limb)

RECURSIVE BigAddFrom(_, _, _, _)
BigAddFrom(a, b, i, carry) ==
    IF i > Len(a) /\ i > Len(b) THEN (IF carry = 0 THEN <<>> ELSE <<carry>>)
    ELSE LET s == LimbAt(a, i) + LimbAt(b, i) + carry
         IN  <<s % Limb>> \o BigAddFrom(a, b, i + 1, s \div Limb)

BigAdd(a, b) == BigNorm(BigAddFrom(a, b, 1, 0))

\* a - b for a >= b
RECURSIVE BigSubFrom(_, _, _, _)
BigSubFrom(a, b, i, borrow) ==
    IF i > Len(a) THEN <<>>
    ELSE LET d == LimbAt(a, i) - LimbAt(b, i) - borrow
         IN  <<IF d < 0 THEN d + Limb ELSE d>>
                \o BigSubFrom(a, b, i + 1, IF d < 0 THEN 1 ELSE 0)

BigSub(a, b) == BigNorm(BigSubFrom(a, b, 1, 0))

RECURSIVE BigCmpAt(_, _, _)
BigCmpAt(a, b, i) ==
    IF i = 0 THEN 0
    ELSE IF a[i] # b[i] THEN (IF a[i] < b[i] THEN 0 - 1 ELSE 1)
    ELSE BigCmpAt(a, b, i - 1)

\* -1, 0 or 1 as a < b, a = b or a > b
BigCmp(a, b) ==
    IF Len(a) # Len(b) THEN (IF Len(a) < Len(b) THEN 0 - 1 ELSE 1)
    ELSE BigCmpAt(a, b, Len(a))

\* a * k for 0 <= k <= Limb
RECURSIVE BigMulSmallFrom(_, _, _, _)
BigMulSmallFrom(a, k, i, carry) ==
    IF i > Len(a) THEN (IF carry = 0 THEN <<>> ELSE <<carry>>)
    ELSE LET s == a[i] * k + carry
         IN  <<s % Limb>> \o BigMulSmallFrom(a, k, i + 1, s \div Limb)

BigMulSmall(a, k) == BigNorm(BigMulSmallFrom(a, k, 1, 0))

RECURSIVE BigMulFrom(_, _, _)
BigMulFrom(a, b, i) ==
    IF i > Len(b) THEN <<>>
    ELSE BigAdd(Zeros(i - 1) \o BigMulSmall(a, b[i]), BigMulFrom(a, b, i + 1))

BigMul(a, b) == BigNorm(BigMulFrom(a, b, 1))

\* quotient and remainder of a by k, 0 < k <= Limb, from the highest limb down
RECURSIVE BigDivSmallFrom(_, _, _, _)
BigDivSmallFrom(a, k, i, r) ==
    IF i = 0 THEN [q |-> <<>>, r |-> r]
    ELSE LET cur == r * Limb + a[i]
             rest == BigDivSmallFrom(a, k, i - 1, cur % k)
         IN  [q |-> rest.q \o <<cur \div k>>, r |-> rest.r]

BigDivSmall(a, k) ==
    LET d == BigDivSmallFrom(a, k, Len(a), 0) IN [q |-> BigNorm(d.q), r |-> d.r]

\* a * 2^n
BigShl(a, n) ==
    IF a = <<>> THEN <<>> ELSE Zeros(n \div 15) \o BigMulSmall(a, 2^(n % 15))

\* the floor of a / 2^n
BigShr(a, n) ==
    IF n \div 15 >= Len(a) THEN <<>>
    ELSE BigDivSmall(SubSeq(a, (n \div 15) + 1, Len(a)), 2^(n % 15)).q

RECURSIVE BitLength(_)
BitLength(n) == IF n = 0 THEN 0 ELSE 1 + BitLength(n \div 2)

BigBits(a) == IF a = <<>> THEN 0 ELSE 15 * (Len(a) - 1) + BitLength(a[Len(a)])

BigOdd(a) == a # <<>> /\ a[1] % 2 = 1

Double(neg, m, e) == [neg |-> neg /\ m # <<>>, m |-> m, e |-> e]

\* The binary64 nearest to (-1)^neg * (m + f) * 2^e, where 0 <= f < 1 and
\* sticky tells whether f > 0 (then m has more than 54 bits): 53 significant
\* bits are kept, a tie goes to the even significand.
RoundDouble(neg, m, e, sticky) ==
    LET k == BigBits(m) - 53 IN
    IF k <= 0 THEN Double(neg, m, e)
    ELSE LET q == BigShr(m, k)
             low == BigSub(m, BigShl(q, k))
             c == BigCmp(low, BigShl(<<1>>, k - 1))
             up == c = 1 \/ (c = 0 /\ (sticky \/ BigOdd(q)))
         IN  Double(neg, IF up THEN BigAdd(q, <<1>>) ELSE q, e + k)

FromInt(n) == Double(n < 0, BigFromInt(IF n < 0 THEN 0 - n ELSE n), 0)

DSign(x) == IF x.m = <<>> THEN 0 ELSE IF x.neg THEN 0 - 1 ELSE 1

\* x + y
DAdd(x, y) ==
    LET e0 == Min(x.e, y.e)
        a == BigShl(x.m, x.e - e0)
        b == BigShl(y.m, y.e - e0)
        c == BigCmp(a, b)
    IN  IF x.neg = y.neg \/ x.m = <<>> \/ y.m = <<>>
        THEN RoundDouble(IF x.m = <<>> THEN y.neg ELSE x.neg, BigAdd(a, b), e0, FALSE)
        ELSE IF c = 0 THEN Double(FALSE, <<>>, 0)
        ELSE IF c = 1 THEN RoundDouble(x.neg, BigSub(a, b), e0, FALSE)
        ELSE RoundDouble(y.neg, BigSub(b, a), e0, FALSE)

\* x - y
DSub(x, y) == DAdd(x, [y EXCEPT !.neg = ~y.neg /\ y.m # <<>>])

\* x * y
DMul(x, y) == RoundDouble(x.neg # y.neg, BigMul(x.m, y.m), x.e + y.e, FALSE)

\* x / k for an integer k, 0 < k <= Limb: the quotient is taken with 75 more
\* bits than x has, the remainder is the sticky bit
DDivInt(x, k) ==
    IF x.m = <<>> THEN x
    ELSE LET d == BigDivSmall(BigShl(x.m, 75), k)
         IN  RoundDouble(x.neg, d.q, x.e - 75, d.r # 0)

\* x <= y, x = y, Math.min, Math.max
DLeq(x, y) == DSign(DSub(x, y)) <= 0
DEq(x, y) == DSign(DSub(x, y)) = 0
DMin(x, y) == IF DLeq(x, y) THEN x ELSE y
DMax(x, y) == IF DLeq(x, y) THEN y ELSE x

\* a decimal literal or a parsed decimal string n / 10^k, as n and the power
Decimal(n, scale) == DDivInt(FromInt(n), scale)

\* a magnitude that fits a machine integer, as that integer
RECURSIVE BigToInt(_)
BigToInt(a) == IF a = <<>> THEN 0 ELSE a[1] + Limb * BigToInt(Tail(a))

\* the integer nearest to x * k for x >= 0 and 0 < k <= Limb \div 2, the
\* larger one on a tie: the floor of x * k + 1/2
RoundHalfUp(x, k) ==
    LET scaled == BigMulSmall(x.m, k)
    IN  BigToInt(IF x.e >= 0 THEN BigShl(scaled, x.e)
                 ELSE BigShr(BigAdd(BigMulSmall(scaled, 2), BigShl(<<1>>, 0 - x.e)), 1 - x.e))

\* x.toFixed(2) for x >= 0, as the number of hundredths it denotes
ToFixed2(x) == RoundHalfUp(x, 100)

\* Math.round(x) for x >= 0
RoundNumber(x) == RoundHalfUp(x, 1)

\* the value of a number that holds a whole number n, 0 <= n <= Limb
WholeValue(x) ==
    BigToInt(IF x.e >= 0 THEN BigShl(x.m, x.e) ELSE BigShr(x.m, 0 - x.e))

\* x / y for a divisor that holds a whole number, 0 < y <= Limb
DDivWhole(x, y) == DDivInt(x, WholeValue(y))

---------------------------------------------------------------------------
(* Record store (DatabaseStorage) *)

NoOrder == 0

ProgressColumns ==
    {"userId", "taskId", "currentBalance", "currentDay", "inventoryValue",
     "totalRevenue", "totalProfit", "kpiScores"}

GetTrainingTask(t) == IF t \in DOMAIN trainingTasks THEN <<trainingTasks[t]>> ELSE <<>>

GetSupplier(s) == IF s \in ExistingSuppliers THEN <<s>> ELSE <<>>

GetProduct(p) ==
    IF p \in Products THEN <<[id |-> p, unitPrice |-> ProductUnitPrices[p]]>> ELSE <<>>

GetStudentProgress(S, u, t) ==
    SelectSeq(S.progress, LAMBDA r : r.userId = u /\ r.taskId = t)

\* The insert and the update write the table's columns only: a key of the
\* given object that names no column (status) is not stored.
UpsertStudentProgress(S, row) ==
    LET i == FirstIndex([j \in 1..Len(S.progress) |->
                            S.progress[j].userId = row.userId /\ S.progress[j].taskId = row.taskId])
        stored == [c \in ProgressColumns |-> row[c]]
    IN  IF i > 0
        THEN [S EXCEPT !.progress[i] = stored]
        ELSE [S EXCEPT !.progress = Append(@, stored)]

GetInventoryRecords(S, u, t) ==
    SelectSeq(S.inventory, LAMBDA r : r.userId = u /\ r.taskId = t)

UpsertInventoryRecord(S, row) ==
    LET i == FirstIndex([j \in 1..Len(S.inventory) |->
                            /\ S.inventory[j].userId = row.userId
                            /\ S.inventory[j].taskId = row.taskId
                            /\ S.inventory[j].productId = row.productId])
    IN  IF i > 0
        THEN [S EXCEPT !.inventory[i] = row]
        ELSE [S EXCEPT !.inventory = Append(@, row)]

GetOrders(S, u, t) ==
    SelectSeq(S.orders, LAMBDA o : o.userId = u /\ o.taskId = t)

CreateOrder(S, row) ==
    [S EXCEPT !.orders = Append(@, [id |-> Len(S.orders) + 1,
                                    userId |-> row.userId, taskId |-> row.taskId,
                                    orderType |-> row.orderType,
                                    totalAmount |-> row.totalAmount,
                                    status |-> row.status,
                                    orderItems |-> row.orderItems])]

UpdateOrder(S, id, newStatus) ==
    [S EXCEPT !.orders = [i \in 1..Len(S.orders) |->
                            IF S.orders[i].id = id
                            THEN [S.orders[i] EXCEPT !.status = newStatus]
                            ELSE S.orders[i]]]

GetFinancialRecords(S, u, t) ==
    SelectSeq(S.financial, LAMBDA r : r.userId = u /\ r.taskId = t)

CreateFinancialRecord(S, u, t, recordType, amount, category, relatedOrderId) ==
    [S EXCEPT !.financial = Append(@, [userId |-> u, taskId |-> t,
                                       recordType |-> recordType, amount |-> amount,
                                       category |-> category,
                                       relatedOrderId |-> relatedOrderId])]

CreateEvaluationRecord(S, row) ==
    [S EXCEPT !.evaluations = Append(@, row)]

---------------------------------------------------------------------------
(* InventoryService *)

PlaceholderUnitCost == 5000

\* The outcome of a call: the store it leaves, "ok" or the error raised, and
\* the value returned.
Outcome(S, result, value) == [store |-> S, result |-> result, value |-> value]

FindInventory(S, u, t, p) ==
    Find(SelectSeq(GetInventoryRecords(S, u, t), LAMBDA r : r.productId = p))

\* mutant: the progress row is written with the day set back to 1
IncomingProgressUpdate_ResetsDay(S, u, t, totalCost, divisor) ==
    LET progress == GetStudentProgress(S, u, t) IN
    IF Len(progress) > 0
    THEN UpsertStudentProgress(S,
            [progress[1] EXCEPT !.currentBalance = ToDecimal2(progress[1].currentBalance * divisor - totalCost, divisor),
                                !.inventoryValue = ToDecimal2(progress[1].inventoryValue * divisor + totalCost, divisor),
                                !.currentDay = 1])
    ELSE S

\* the progress write of processIncoming, made only when a progress row exists;
\* the cost is totalCost / divisor hundredths
IncomingProgressUpdate(S, u, t, totalCost, divisor) ==
    LET progress == GetStudentProgress(S, u, t) IN
    IF Len(progress) > 0
    THEN UpsertStudentProgress(S,
            [progress[1] EXCEPT !.currentBalance = ToDecimal2(progress[1].currentBalance * divisor - totalCost, divisor),
                                !.inventoryValue = ToDecimal2(progress[1].inventoryValue * divisor + totalCost, divisor)])
    ELSE S

\* the unit cost is unitCost / divisor hundredths
ProcessIncoming(S, u, t, p, quantity, unitCost, divisor) ==
    LET existingRecord == FindInventory(S, u, t, p)
        newStock == IF existingRecord # <<>>
                    THEN existingRecord[1].currentStock + quantity
                    ELSE quantity
        S1 == UpsertInventoryRecord(S,
                [userId |-> u, taskId |-> t, productId |-> p,
                 currentStock |-> newStock,
                 reservedStock |-> IF existingRecord # <<>>
                                   THEN existingRecord[1].reservedStock ELSE 0])
        totalCost == quantity * unitCost
        S2 == CreateFinancialRecord(S1, u, t, "expense", ToDecimal2(totalCost, divisor),
                                    "procurement", NoOrder)
        S3 == IncomingProgressUpdate(S2, u, t, totalCost, divisor)
    IN  Outcome(S3, "ok", FindInventory(S3, u, t, p))

\* mutant: inventoryValue is lowered by the placeholder cost without the floor
OutgoingProgressUpdate_NoFloor(S, u, t, quantity, totalRevenue, divisor) ==
    LET progress == GetStudentProgress(S, u, t)
        inventoryCost == quantity * PlaceholderUnitCost
    IN  IF Len(progress) > 0
        THEN UpsertStudentProgress(S,
                [progress[1] EXCEPT
                    !.currentBalance = ToDecimal2(progress[1].currentBalance * divisor + totalRevenue, divisor),
                    !.totalRevenue = ToDecimal2(progress[1].totalRevenue * divisor + totalRevenue, divisor),
                    !.totalProfit = ToDecimal2(progress[1].totalProfit * divisor
                                               + (totalRevenue - inventoryCost * divisor), divisor),
                    !.inventoryValue = ToDecimal2(progress[1].inventoryValue - inventoryCost, 1)])
        ELSE S

\* the progress write of processOutgoing, made only when a progress row exists;
\* the revenue is totalRevenue / divisor hundredths
OutgoingProgressUpdate(S, u, t, quantity, totalRevenue, divisor) ==
    LET progress == GetStudentProgress(S, u, t)
        inventoryCost == quantity * PlaceholderUnitCost
    IN  IF Len(progress) > 0
        THEN UpsertStudentProgress(S,
                [progress[1] EXCEPT
                    !.currentBalance = ToDecimal2(progress[1].currentBalance * divisor + totalRevenue, divisor),
                    !.totalRevenue = ToDecimal2(progress[1].totalRevenue * divisor + totalRevenue, divisor),
                    !.totalProfit = ToDecimal2(progress[1].totalProfit * divisor
                                               + (totalRevenue - inventoryCost * divisor), divisor),
                    !.inventoryValue = ToDecimal2(Max(0, progress[1].inventoryValue - inventoryCost), 1)])
        ELSE S

\* mutant: only a missing record is rejected, the quantity is not compared
InsufficientStockCheck_NoQuantity(S, u, t, p, quantity) ==
    FindInventory(S, u, t, p) = <<>>

InsufficientStockCheck(S, u, t, p, quantity) ==
    LET existingRecord == FindInventory(S, u, t, p)
    IN  existingRecord = <<>> \/ existingRecord[1].currentStock < quantity

\* the unit price is unitPrice / divisor hundredths
ProcessOutgoing(S, u, t, p, quantity, unitPrice, divisor) ==
    LET existingRecord == FindInventory(S, u, t, p) IN
    IF InsufficientStockCheck(S, u, t, p, quantity)
    THEN Outcome(S, "InsufficientStock", <<>>)
    ELSE
        LET newStock == existingRecord[1].currentStock - quantity
            S1 == UpsertInventoryRecord(S, [existingRecord[1] EXCEPT !.currentStock = newStock])
            totalRevenue == quantity * unitPrice
            S2 == CreateFinancialRecord(S1, u, t, "income", ToDecimal2(totalRevenue, divisor),
                                        "sales", NoOrder)
            S3 == OutgoingProgressUpdate(S2, u, t, quantity, totalRevenue, divisor)
        IN  Outcome(S3, "ok", FindInventory(S3, u, t, p))

---------------------------------------------------------------------------
(* OrderService *)

\* the product of the divisors of the items: a common denominator of their
\* prices
RECURSIVE CommonDivisor(_)
CommonDivisor(items) ==
    IF items = <<>> THEN 1 ELSE Head(items).divisor * CommonDivisor(Tail(items))

\* items.reduce((sum, item) => sum + item.quantity * item.unitPrice, 0), as the
\* numerator of the sum over CommonDivisor(items)
TotalAmount(items) ==
    SumSeq([i \in 1..Len(items) |->
               items[i].quantity * items[i].unitPrice
                   * (CommonDivisor(items) \div items[i].divisor)])

\* mutant: the order is looked up by its id among the orders of every key
FindOrder_AnyOwner(S, u, t, orderId) ==
    Find(SelectSeq(S.orders, LAMBDA o : o.id = orderId))

FindOrder(S, u, t, orderId) ==
    Find(SelectSeq(GetOrders(S, u, t), LAMBDA o : o.id = orderId))

\* for (const item of items) await InventoryService.processIncoming(...)
RECURSIVE IncomingLoop(_, _, _, _)
IncomingLoop(S, u, t, items) ==
    IF items = <<>> THEN S
    ELSE IncomingLoop(ProcessIncoming(S, u, t, Head(items).productId,
                                      Head(items).quantity, Head(items).unitPrice,
                                      Head(items).divisor).store,
                      u, t, Tail(items))

\* for (const item of items) await InventoryService.processOutgoing(...):
\* the first item that throws ends the loop, the items before it applied
RECURSIVE OutgoingLoop(_, _, _, _)
OutgoingLoop(S, u, t, items) ==
    IF items = <<>> THEN Outcome(S, "ok", <<>>)
    ELSE LET r == ProcessOutgoing(S, u, t, Head(items).productId,
                                  Head(items).quantity, Head(items).unitPrice,
                                  Head(items).divisor)
         IN  IF r.result # "ok" THEN r
             ELSE OutgoingLoop(r.store, u, t, Tail(items))

StatusAfterProcessing == "completed"

ProcessPurchaseOrder(S, orderId, u, t) ==
    LET order == FindOrder(S, u, t, orderId) IN
    IF order = <<>> THEN Outcome(S, "OrderNotFound", <<>>)
    ELSE IF order[1].status # "pending" THEN Outcome(S, "InvalidState", <<>>)
    ELSE LET S1 == IncomingLoop(S, u, t, order[1].orderItems)
             S2 == UpdateOrder(S1, orderId, StatusAfterProcessing)
         IN  Outcome(S2, "ok", FindOrder(S2, u, t, orderId))

\* mutant: the balance is not compared with the total
PurchaseValidation_NoFundsCheck(S, u, t, supplierId, items) ==
    IF GetSupplier(supplierId) = <<>> THEN "SupplierNotFound"
    ELSE IF Len(GetStudentProgress(S, u, t)) = 0 THEN "NotStarted"
    ELSE "ok"

PurchaseValidation(S, u, t, supplierId, items) ==
    LET progress == GetStudentProgress(S, u, t) IN
    IF GetSupplier(supplierId) = <<>> THEN "SupplierNotFound"
    ELSE IF Len(progress) = 0 THEN "NotStarted"
    ELSE IF progress[1].currentBalance * CommonDivisor(items) < TotalAmount(items) THEN "InsufficientFunds"
    ELSE "ok"

\* mutant: the order row is inserted before the checks are made
CreatePurchaseOrder_OrderFirst(S, u, t, supplierId, items) ==
    LET S1 == CreateOrder(S, [userId |-> u, taskId |-> t, orderType |-> "purchase",
                              totalAmount |-> ToDecimal2(TotalAmount(items), CommonDivisor(items)),
                              status |-> "pending", orderItems |-> items])
        check == PurchaseValidation(S, u, t, supplierId, items)
        order == S1.orders[Len(S1.orders)]
        r == ProcessPurchaseOrder(S1, order.id, u, t)
    IN  IF check # "ok" THEN Outcome(S1, check, <<>>)
        ELSE Outcome(r.store, r.result, IF r.result = "ok" THEN <<order>> ELSE <<>>)

CreatePurchaseOrder(S, u, t, supplierId, items) ==
    LET check == PurchaseValidation(S, u, t, supplierId, items) IN
    IF check # "ok" THEN Outcome(S, check, <<>>)
    ELSE LET S1 == CreateOrder(S, [userId |-> u, taskId |-> t, orderType |-> "purchase",
                                   totalAmount |-> ToDecimal2(TotalAmount(items), CommonDivisor(items)),
                                   status |-> "pending", orderItems |-> items])
             order == S1.orders[Len(S1.orders)]
             r == ProcessPurchaseOrder(S1, order.id, u, t)
         IN  \* the order object returned is the one createOrder gave
             Outcome(r.store, r.result, IF r.result = "ok" THEN <<order>> ELSE <<>>)

ProcessSalesOrder(S, orderId, u, t) ==
    LET order == FindOrder(S, u, t, orderId) IN
    IF order = <<>> THEN Outcome(S, "OrderNotFound", <<>>)
    ELSE IF order[1].status # "pending" THEN Outcome(S, "InvalidState", <<>>)
    ELSE LET r == OutgoingLoop(S, u, t, order[1].orderItems) IN
         IF r.result # "ok" THEN r
         ELSE LET S2 == UpdateOrder(r.store, orderId, StatusAfterProcessing)
              IN  Outcome(S2, "ok", FindOrder(S2, u, t, orderId))

\* the availability loop of createSalesOrder: every item against the stock
\* read once before the loop
SalesValidation(S, u, t, items) ==
    IF \E i \in 1..Len(items) :
          InsufficientStockCheck(S, u, t, items[i].productId, items[i].quantity)
    THEN "InsufficientStock"
    ELSE "ok"

CreateSalesOrder(S, u, t, items) ==
    LET check == SalesValidation(S, u, t, items) IN
    IF check # "ok" THEN Outcome(S, check, <<>>)
    ELSE LET S1 == CreateOrder(S, [userId |-> u, taskId |-> t, orderType |-> "sale",
                                   totalAmount |-> ToDecimal2(TotalAmount(items), CommonDivisor(items)),
                                   status |-> "pending", orderItems |-> items])
             order == S1.orders[Len(S1.orders)]
             r == ProcessSalesOrder(S1, order.id, u, t)
         IN  Outcome(r.store, r.result, IF r.result = "ok" THEN <<order>> ELSE <<>>)

\* mutant: a completed order is not refused
CancelValidation_NoCompletedCheck(S, orderId, u, t) ==
    IF FindOrder(S, u, t, orderId) = <<>> THEN "OrderNotFound" ELSE "ok"

CancelValidation(S, orderId, u, t) ==
    LET order == FindOrder(S, u, t, orderId) IN
    IF order = <<>> THEN "OrderNotFound"
    ELSE IF order[1].status = "completed" THEN "AlreadyCompleted"
    ELSE "ok"

\* mutant: the cancellation record carries the order's total
CancelOrder_RecordsTotal(S, orderId, u, t) ==
    LET check == CancelValidation(S, orderId, u, t) IN
    IF check # "ok" THEN Outcome(S, check, <<>>)
    ELSE LET S1 == UpdateOrder(S, orderId, "cancelled")
             S2 == CreateFinancialRecord(S1, u, t, "expense",
                                         FindOrder(S, u, t, orderId)[1].totalAmount,
                                         "operational", orderId)
         IN  Outcome(S2, "ok", FindOrder(S1, u, t, orderId))

CancelOrder(S, orderId, u, t) ==
    LET check == CancelValidation(S, orderId, u, t) IN
    IF check # "ok" THEN Outcome(S, check, <<>>)
    ELSE LET S1 == UpdateOrder(S, orderId, "cancelled")
             S2 == CreateFinancialRecord(S1, u, t, "expense", 0, "operational", orderId)
         IN  Outcome(S2, "ok", FindOrder(S1, u, t, orderId))

\* maxDiscount = 0.15 + Math.min(quantity / 100, 1) * 0.10
MaxDiscount(quantity) ==
    LET quantityFactor == DMin(DDivInt(FromInt(quantity), 100), FromInt(1))
    IN  DAdd(Decimal(15, 100), DMul(quantityFactor, Decimal(10, 100)))

NoAnswer == [result |-> "none", accepted |-> FALSE, finalPrice |-> FromInt(0), message |-> ""]

Answer(accepted, finalPrice, message) ==
    [result |-> "ok", accepted |-> accepted, finalPrice |-> finalPrice, message |-> message]

\* mutant: a request at or above the base price is refused
NegotiatePrice_RefusesAboveBase(supplierId, productId, requestedPrice, quantity) ==
    LET product == GetProduct(productId) IN
    IF GetSupplier(supplierId) = <<>> \/ product = <<>>
    THEN [NoAnswer EXCEPT !.result = "NotFound"]
    ELSE
        LET basePrice == Decimal(product[1].unitPrice, 100)
            discount == DDivWhole(DSub(basePrice, requestedPrice), basePrice)
            maxDiscount == MaxDiscount(quantity)
        IN  IF DLeq(discount, FromInt(0))
            THEN Answer(FALSE, basePrice, "reject")
            ELSE IF DLeq(discount, maxDiscount)
            THEN Answer(TRUE, requestedPrice, "acceptForQuantity")
            ELSE IF DLeq(discount, DAdd(maxDiscount, Decimal(5, 100)))
            THEN Answer(FALSE, DMul(basePrice, DSub(FromInt(1), maxDiscount)), "counterOffer")
            ELSE Answer(FALSE, basePrice, "reject")

\* the four messages stand for the four answers of the code
NegotiatePrice(supplierId, productId, requestedPrice, quantity) ==
    LET product == GetProduct(productId) IN
    IF GetSupplier(supplierId) = <<>> \/ product = <<>>
    THEN [NoAnswer EXCEPT !.result = "NotFound"]
    ELSE
        LET basePrice == Decimal(product[1].unitPrice, 100)
            discount == DDivWhole(DSub(basePrice, requestedPrice), basePrice)
            maxDiscount == MaxDiscount(quantity)
        IN  IF DLeq(discount, FromInt(0))
            THEN Answer(TRUE, requestedPrice, "accept")
            ELSE IF DLeq(discount, maxDiscount)
            THEN Answer(TRUE, requestedPrice, "acceptForQuantity")
            ELSE IF DLeq(discount, DAdd(maxDiscount, Decimal(5, 100)))
            THEN Answer(FALSE, DMul(basePrice, DSub(FromInt(1), maxDiscount)), "counterOffer")
            ELSE Answer(FALSE, basePrice, "reject")

---------------------------------------------------------------------------
(* TaskService *)

InitialKpiScores == [financial |-> 0, operational |-> 0, decision |-> 0, learning |-> 0]

\* mutant: no check for an existing progress row, every call seeds
StartTask_Reseed(S, u, t) ==
    LET task == GetTrainingTask(t) IN
    IF task = <<>> THEN Outcome(S, "NotFound", <<>>)
    ELSE
        LET S1 == CreateFinancialRecord(S, u, t, "income", task[1].initialBudget,
                                        "initial", NoOrder)
            S2 == UpsertStudentProgress(S1,
                    [userId |-> u, taskId |-> t,
                     currentBalance |-> ToDecimal2(task[1].initialBudget, 1),
                     currentDay |-> 1,
                     inventoryValue |-> 0, totalRevenue |-> 0, totalProfit |-> 0,
                     kpiScores |-> InitialKpiScores])
        IN  Outcome(S2, "ok", <<GetStudentProgress(S2, u, t)[1]>>)

StartTask(S, u, t) ==
    LET task == GetTrainingTask(t)
        existingProgress == GetStudentProgress(S, u, t)
    IN  IF task = <<>> THEN Outcome(S, "NotFound", <<>>)
        ELSE IF Len(existingProgress) > 0 THEN Outcome(S, "ok", <<existingProgress[1]>>)
        ELSE
            LET initialProgress ==
                    [userId |-> u, taskId |-> t,
                     currentBalance |-> ToDecimal2(task[1].initialBudget, 1),
                     currentDay |-> 1,
                     inventoryValue |-> 0, totalRevenue |-> 0, totalProfit |-> 0,
                     kpiScores |-> InitialKpiScores,
                     status |-> "active"]
                S1 == CreateFinancialRecord(S, u, t, "income", task[1].initialBudget,
                                            "initial", NoOrder)
                S2 == UpsertStudentProgress(S1, initialProgress)
            IN  Outcome(S2, "ok", <<GetStudentProgress(S2, u, t)[1]>>)

\* Scores are rationals <<numerator, denominator>> until Math.round.
\* Math.min(100, n/d) and Math.max(0, n/d), for d > 0
Min100(x) == IF x[1] > 100 * x[2] THEN <<100, 1>> ELSE x
Max0(x) == IF x[1] < 0 THEN <<0, 1>> ELSE x

SumAmounts(records, recordType) ==
    LET rs == SelectSeq(records, LAMBDA r : r.recordType = recordType)
    IN  SumSeq([i \in 1..Len(rs) |-> rs[i].amount])

\* mutant: the score is capped at 100 but not floored at 0
FinancialScore_NoFloor(S, u, t) ==
    LET records == GetFinancialRecords(S, u, t)
        totalIncome == SumAmounts(records, "income")
        totalExpense == SumAmounts(records, "expense")
    IN  IF totalIncome > 0
        THEN Min100(<<200 * (totalIncome - totalExpense), totalIncome>>)
        ELSE <<0, 1>>

\* Math.min(100, Math.max(0, profitMargin * 2))
FinancialScore(S, u, t) ==
    LET records == GetFinancialRecords(S, u, t)
        totalIncome == SumAmounts(records, "income")
        totalExpense == SumAmounts(records, "expense")
    IN  IF totalIncome > 0
        THEN Min100(Max0(<<200 * (totalIncome - totalExpense), totalIncome>>))
        ELSE <<0, 1>>

\* Math.min(100, fulfillmentRate)
OperationalScore(S, u, t) ==
    LET os == GetOrders(S, u, t)
        completedOrders == Len(SelectSeq(os, LAMBDA o : o.status = "completed"))
        totalOrders == Len(os)
    IN  IF totalOrders > 0 THEN Min100(<<100 * completedOrders, totalOrders>>) ELSE <<0, 1>>

\* calculateInventoryTurnover, as the rational <<numerator, denominator>>:
\* totalSold / (sum of currentStock / max(1, number of records)), 0 when the
\* average stock is 0
CalculateInventoryTurnover(S, u, t) ==
    LET inv == GetInventoryRecords(S, u, t)
        salesOrders == SelectSeq(GetOrders(S, u, t),
                                 LAMBDA o : o.orderType = "sale" /\ o.status = "completed")
        totalSold == SumSeq([i \in 1..Len(salesOrders) |->
                        SumSeq([j \in 1..Len(salesOrders[i].orderItems) |->
                                    salesOrders[i].orderItems[j].quantity])])
        stockSum == SumSeq([i \in 1..Len(inv) |-> inv[i].currentStock])
    IN  IF stockSum > 0 THEN <<totalSold * Max(1, Len(inv)), stockSum>> ELSE <<0, 1>>

\* Math.min(100, inventoryTurnover * 10)
DecisionScore(S, u, t) ==
    LET turnover == CalculateInventoryTurnover(S, u, t)
    IN  Min100(<<10 * turnover[1], turnover[2]>>)

\* Math.min(100, progressRate)
LearningScore(t, currentDay) ==
    LET task == GetTrainingTask(t)
    IN  IF task # <<>> /\ task[1].durationDays > 0
        THEN Min100(<<100 * currentDay, task[1].durationDays>>)
        ELSE IF task # <<>> THEN <<100, 1>> ELSE <<0, 1>>

\* Math.round(f * 0.4 + o * 0.3 + d * 0.2 + l * 0.1) for the four rationals:
\* the weighted sum times ten is whole + fracNum / den, computed part by part
\* to keep the products small.
TotalScore(f, o, d, l) ==
    LET w == <<4, 3, 2, 1>>
        x == <<f, o, d, l>>
        den == f[2] * o[2] * d[2] * l[2]
        whole == SumSeq([i \in 1..4 |-> (w[i] * x[i][1]) \div x[i][2]])
        fracNum == SumSeq([i \in 1..4 |-> ((w[i] * x[i][1]) % x[i][2]) * (den \div x[i][2])])
    IN  (2 * whole + 10 + ((2 * fracNum) \div den)) \div 20

CalculateKPIs(S, u, t, currentDay) ==
    LET f == FinancialScore(S, u, t)
        o == OperationalScore(S, u, t)
        d == DecisionScore(S, u, t)
        l == LearningScore(t, currentDay)
    IN  [financial |-> MathRound(f[1], f[2]),
         operational |-> MathRound(o[1], o[2]),
         decision |-> MathRound(d[1], d[2]),
         learning |-> MathRound(l[1], l[2]),
         total |-> TotalScore(f, o, d, l)]

\* mutant: the last day is compared with > instead of >=
AdvanceValidation_OffByOne(S, u, t) ==
    LET progressArray == GetStudentProgress(S, u, t)
        task == GetTrainingTask(t)
    IN  IF Len(progressArray) = 0 THEN "NotStarted"
        ELSE IF task = <<>> THEN "NotFound"
        ELSE IF progressArray[1].currentDay > task[1].durationDays THEN "AlreadyComplete"
        ELSE "ok"

AdvanceValidation(S, u, t) ==
    LET progressArray == GetStudentProgress(S, u, t)
        task == GetTrainingTask(t)
    IN  IF Len(progressArray) = 0 THEN "NotStarted"
        ELSE IF task = <<>> THEN "NotFound"
        ELSE IF progressArray[1].currentDay >= task[1].durationDays THEN "AlreadyComplete"
        ELSE "ok"

\* mutant: the daily cost recorded is 10% of the balance
DailyCostRecorded_TenPercent(currentBalance) == ToDecimal2(currentBalance, 10)

\* dailyCost = currentBalance * 0.01, as the amount column stores it
DailyCostRecorded(currentBalance) == ToDecimal2(currentBalance, 100)

\* newBalance = currentBalance - dailyCost, as the current_balance column stores it
BalanceAfterDailyCost(currentBalance) == ToDecimal2(99 * currentBalance, 100)

AdvanceDay(S, u, t) ==
    LET check == AdvanceValidation(S, u, t) IN
    IF check # "ok" THEN Outcome(S, check, <<>>)
    ELSE
        LET progress == GetStudentProgress(S, u, t)[1]
            S1 == CreateFinancialRecord(S, u, t, "expense",
                                        DailyCostRecorded(progress.currentBalance),
                                        "operational", NoOrder)
            updatedProgress == [progress EXCEPT
                                  !.currentDay = progress.currentDay + 1,
                                  !.currentBalance = BalanceAfterDailyCost(progress.currentBalance)]
            kpiScores == CalculateKPIs(S1, u, t, updatedProgress.currentDay)
            S2 == UpsertStudentProgress(S1, [updatedProgress EXCEPT !.kpiScores = kpiScores])
        IN  Outcome(S2, "ok", <<GetStudentProgress(S2, u, t)[1]>>)

\* mutant: the A threshold is compared with > instead of >=
Grade_StrictA(totalScore) ==
    IF totalScore > 90 THEN "A"
    ELSE IF totalScore >= 80 THEN "B"
    ELSE IF totalScore >= 70 THEN "C"
    ELSE IF totalScore >= 60 THEN "D"
    ELSE "F"

Grade(totalScore) ==
    IF totalScore >= 90 THEN "A"
    ELSE IF totalScore >= 80 THEN "B"
    ELSE IF totalScore >= 70 THEN "C"
    ELSE IF totalScore >= 60 THEN "D"
    ELSE "F"

CompleteTask(S, u, t) ==
    LET progressArray == GetStudentProgress(S, u, t) IN
    IF Len(progressArray) = 0 THEN Outcome(S, "NotStarted", <<>>)
    ELSE
        LET progress == progressArray[1]
            kpiScores == CalculateKPIs(S, u, t, progress.currentDay)
            evaluation == [userId |-> u, taskId |-> t,
                           financialScore |-> kpiScores.financial,
                           operationalScore |-> kpiScores.operational,
                           decisionScore |-> kpiScores.decision,
                           learningScore |-> kpiScores.learning,
                           totalScore |-> kpiScores.total,
                           grade |-> Grade(kpiScores.total)]
            S1 == CreateEvaluationRecord(S, evaluation)
            withStatus == [c \in DOMAIN progress \cup {"status"} |->
                             IF c = "status" THEN "completed" ELSE progress[c]]
            S2 == UpsertStudentProgress(S1, withStatus)
        IN  Outcome(S2, "ok", <<evaluation>>)

---------------------------------------------------------------------------
(* MarketService *)

GetMarketData(M) == M

UpdateMarketData(M, category, data) ==
    LET i == FirstIndex([j \in 1..Len(M) |-> M[j].category = category])
    IN  IF i > 0 THEN [M EXCEPT ![i] = data] ELSE Append(M, data)

\* generateMarketEvents: the events the levels give rise to, then the two
\* random events, each present or not
GenerateMarketEvents(demand, competition, seasonal, disruption) ==
    (IF ~DLeq(demand, FromInt(80)) THEN <<"high_demand">> ELSE <<>>)
    \o (IF ~DLeq(FromInt(20), demand) THEN <<"low_demand">> ELSE <<>>)
    \o (IF ~DLeq(competition, FromInt(80)) THEN <<"high_competition">> ELSE <<>>)
    \o (IF ~DLeq(FromInt(20), competition) THEN <<"low_competition">> ELSE <<>>)
    \o (IF seasonal THEN <<"seasonal">> ELSE <<>>)
    \o (IF disruption THEN <<"supply_disruption">> ELSE <<>>)

\* the literals 0.1, 0.5 and the values of randomFluctuation()
OneTenth == Decimal(1, 10)
OneHalf == Decimal(5, 10)
FluctuationNumbers == [f \in Fluctuations |-> Decimal(f, 10)]

\* Math.max(0, Math.min(100, level + fluctuation))
ClampLevel(x) == DMax(FromInt(0), DMin(FromInt(100), x))

\* mutant: the price index is stored as computed, without the clamp
ClampPriceIndex_None(x) == x

\* Math.max(0.5, Math.min(2.0, index))
ClampPriceIndex(x) == DMax(OneHalf, DMin(FromInt(2), x))

\* the two fluctuations are the values of randomFluctuation(), as numbers
GenerateMarketData(M, category, demandFluctuation, competitionFluctuation, seasonal, disruption) ==
    LET existingData == Find(SelectSeq(GetMarketData(M), LAMBDA r : r.category = category))
        \* existingData?.demandLevel || 50: a level of 0 counts as absent
        currentDemand == IF existingData # <<>> /\ existingData[1].demandLevel # 0
                         THEN existingData[1].demandLevel ELSE 50
        currentCompetition == IF existingData # <<>> /\ existingData[1].competitionLevel # 0
                              THEN existingData[1].competitionLevel ELSE 50
        currentPriceIndex == IF existingData # <<>>
                             THEN Decimal(existingData[1].priceIndex, 100)
                             ELSE FromInt(1)
        newDemand == ClampLevel(DAdd(FromInt(currentDemand), demandFluctuation))
        newCompetition == ClampLevel(DAdd(FromInt(currentCompetition), competitionFluctuation))
        demandEffect == DDivInt(DSub(newDemand, FromInt(50)), 100)
        competitionEffect == DDivInt(DSub(FromInt(50), newCompetition), 100)
        newPriceIndex ==
            ClampPriceIndex(
                DMul(currentPriceIndex,
                     DAdd(DAdd(FromInt(1), DMul(demandEffect, OneTenth)),
                          DMul(competitionEffect, OneTenth))))
        trendDirection ==
            IF ~DLeq(newDemand, FromInt(currentDemand + 5)) THEN "rising"
            ELSE IF ~DLeq(FromInt(currentDemand - 5), newDemand) THEN "falling"
            ELSE "stable"
    IN  UpdateMarketData(M, category,
            [category |-> category,
             demandLevel |-> RoundNumber(newDemand),
             competitionLevel |-> RoundNumber(newCompetition),
             priceIndex |-> ToFixed2(newPriceIndex),
             trendDirection |-> trendDirection,
             marketEvents |-> GenerateMarketEvents(newDemand, newCompetition,
                                                   seasonal, disruption)])

---------------------------------------------------------------------------
(* The calls, one at a time *)

NoRequest ==
    [supplierId |-> "", productId |-> "", requestedPrice |-> 0, quantity |-> 0,
     answer |-> NoAnswer]

NoCall ==
    [op |-> "none", userId |-> "", taskId |-> "", args |-> <<>>, result |-> "ok", value |-> <<>>]

Init ==
    /\ users = Users
    /\ trainingTasks \in [ExistingTasks -> [initialBudget : Budgets, durationDays : Durations]]
    /\ studentProgress = <<>>
    /\ inventoryRecords = <<>>
    /\ orders = <<>>
    /\ financialRecords = <<>>
    /\ evaluationRecords = <<>>
    /\ marketData = <<>>
    /\ negotiation = NoRequest
    /\ calls = <<>>
    /\ last = NoCall
    /\ nops = 0

Keys == users \X DOMAIN trainingTasks

OpsBound == IF Cardinality(Keys) > 1 THEN MaxOpsTwoKeys ELSE MaxOps

\* the store the call leaves and the record of the call
Call(op, u, t, args, r) ==
    /\ nops < OpsBound
    /\ studentProgress' = r.store.progress
    /\ inventoryRecords' = r.store.inventory
    /\ orders' = r.store.orders
    /\ financialRecords' = r.store.financial
    /\ evaluationRecords' = r.store.evaluations
    /\ last' = [op |-> op, userId |-> u, taskId |-> t, args |-> args,
                result |-> r.result, value |-> r.value]
    /\ nops' = nops + 1
    /\ UNCHANGED <<users, trainingTasks, marketData, negotiation, calls>>

OrderIds == 1..(Len(orders) + 1)

StartTaskCall ==
    \E u \in users, t \in TaskIds :
        Call("startTask", u, t, <<>>, StartTask(Store, u, t))

AdvanceDayCall ==
    \E u \in users, t \in DOMAIN trainingTasks :
        Call("advanceDay", u, t, <<>>, AdvanceDay(Store, u, t))

CompleteTaskCall ==
    \E u \in users, t \in DOMAIN trainingTasks :
        Call("completeTask", u, t, <<>>, CompleteTask(Store, u, t))

ProcessIncomingCall ==
    \E u \in users, t \in DOMAIN trainingTasks, p \in Products, q \in Quantities, c \in UnitCosts :
        Call("processIncoming", u, t, [productId |-> p, quantity |-> q, unitPrice |-> c],
             ProcessIncoming(Store, u, t, p, q, c, 1))

ProcessOutgoingCall ==
    \E u \in users, t \in DOMAIN trainingTasks, p \in Products, q \in Quantities, c \in UnitPrices :
        Call("processOutgoing", u, t, [productId |-> p, quantity |-> q, unitPrice |-> c],
             ProcessOutgoing(Store, u, t, p, q, c, 1))

CreatePurchaseOrderCall ==
    \E u \in users, t \in DOMAIN trainingTasks, s \in SupplierIds, items \in PurchaseItemLists :
        Call("createPurchaseOrder", u, t, [supplierId |-> s, items |-> items],
             CreatePurchaseOrder(Store, u, t, s, items))

CreateSalesOrderCall ==
    \E u \in users, t \in DOMAIN trainingTasks, items \in SaleItemLists :
        Call("createSalesOrder", u, t, [items |-> items],
             CreateSalesOrder(Store, u, t, items))

ProcessPurchaseOrderCall ==
    \E u \in users, t \in DOMAIN trainingTasks, id \in OrderIds :
        Call("processPurchaseOrder", u, t, [orderId |-> id],
             ProcessPurchaseOrder(Store, id, u, t))

ProcessSalesOrderCall ==
    \E u \in users, t \in DOMAIN trainingTasks, id \in OrderIds :
        Call("processSalesOrder", u, t, [orderId |-> id],
             ProcessSalesOrder(Store, id, u, t))

CancelOrderCall ==
    \E u \in users, t \in DOMAIN trainingTasks, id \in OrderIds :
        Call("cancelOrder", u, t, [orderId |-> id],
             CancelOrder(Store, id, u, t))

Next ==
    \/ StartTaskCall
    \/ AdvanceDayCall
    \/ CompleteTaskCall
    \/ ProcessIncomingCall
    \/ ProcessOutgoingCall
    \/ CreatePurchaseOrderCall
    \/ CreateSalesOrderCall
    \/ ProcessPurchaseOrderCall
    \/ ProcessSalesOrderCall
    \/ CancelOrderCall

Spec == Init /\ [][Next]_vars

---------------------------------------------------------------------------
(* The calls of one student on a task of budget 10000.00 and five days,    *)
(* buying ten units at 50.00 and selling five at 80.00, in any order       *)

ScenarioPurchaseItems == <<Item("p1", 10, 5000)>>
ScenarioSaleItems == <<Item("p1", 5, 8000)>>

ScenarioInit ==
    /\ users = Users
    /\ trainingTasks = [t \in ExistingTasks |-> [initialBudget |-> 1000000, durationDays |-> 5]]
    /\ studentProgress = <<>>
    /\ inventoryRecords = <<>>
    /\ orders = <<>>
    /\ financialRecords = <<>>
    /\ evaluationRecords = <<>>
    /\ marketData = <<>>
    /\ negotiation = NoRequest
    /\ calls = <<>>
    /\ last = NoCall
    /\ nops = 0

ScenarioStartTask ==
    Call("startTask", "u1", "t1", <<>>, StartTask(Store, "u1", "t1"))

ScenarioAdvanceDay ==
    Call("advanceDay", "u1", "t1", <<>>, AdvanceDay(Store, "u1", "t1"))

ScenarioPurchase ==
    Call("createPurchaseOrder", "u1", "t1", [supplierId |-> "s1", items |-> ScenarioPurchaseItems],
         CreatePurchaseOrder(Store, "u1", "t1", "s1", ScenarioPurchaseItems))

ScenarioSale ==
    Call("createSalesOrder", "u1", "t1", [items |-> ScenarioSaleItems],
         CreateSalesOrder(Store, "u1", "t1", ScenarioSaleItems))

ScenarioCompleteTask ==
    Call("completeTask", "u1", "t1", <<>>, CompleteTask(Store, "u1", "t1"))

ScenarioNext ==
    \/ ScenarioStartTask
    \/ ScenarioAdvanceDay
    \/ ScenarioPurchase
    \/ ScenarioSale
    \/ ScenarioCompleteTask

ScenarioSpec == ScenarioInit /\ [][ScenarioNext]_vars

---------------------------------------------------------------------------
(* The calls of two students on one task, or of one student on two tasks,  *)
(* one at a time                                                           *)

IsolationInit ==
    /\ \/ /\ users = TwoUsers
          /\ trainingTasks = [t \in ExistingTasks |-> [initialBudget |-> 5000, durationDays |-> 3]]
       \/ /\ users = Users
          /\ trainingTasks = [t \in TwoTasks |-> [initialBudget |-> 5000, durationDays |-> 3]]
    /\ studentProgress = <<>>
    /\ inventoryRecords = <<>>
    /\ orders = <<>>
    /\ financialRecords = <<>>
    /\ evaluationRecords = <<>>
    /\ marketData = <<>>
    /\ negotiation = NoRequest
    /\ calls = <<>>
    /\ last = NoCall
    /\ nops = 0

IsolationSpec == IsolationInit /\ [][Next]_vars

---------------------------------------------------------------------------
(* Negotiation requests: each drawn from the input sets, each answered once *)

NegotiationInit ==
    /\ users = Users
    /\ trainingTasks \in [ExistingTasks -> [initialBudget : Budgets, durationDays : {1}]]
    /\ studentProgress = <<>>
    /\ inventoryRecords = <<>>
    /\ orders = <<>>
    /\ financialRecords = <<>>
    /\ evaluationRecords = <<>>
    /\ marketData = <<>>
    /\ negotiation \in [supplierId : SupplierIds, productId : ProductIds,
                         requestedPrice : RequestedPrices,
                         quantity : NegotiationQuantities, answer : {NoAnswer}]
    /\ calls = <<>>
    /\ last = NoCall
    /\ nops = 0

\* requestedPrice arrives as a JSON number with one decimal
NegotiatePriceCall ==
    /\ negotiation.answer.result = "none"
    /\ negotiation' = [negotiation EXCEPT !.answer =
                          NegotiatePrice(negotiation.supplierId, negotiation.productId,
                                         Decimal(negotiation.requestedPrice, 10),
                                         negotiation.quantity)]
    /\ UNCHANGED <<users, trainingTasks, studentProgress, inventoryRecords, orders,
                   financialRecords, evaluationRecords, marketData, calls, last, nops>>

NegotiationNext == NegotiatePriceCall

NegotiationSpec == NegotiationInit /\ [][NegotiationNext]_vars

---------------------------------------------------------------------------
(* Market requests, from no snapshot or from a snapshot within the ranges *)

InitialSnapshots ==
    {<<>>} \cup
    { <<[category |-> "c1", demandLevel |-> l[1], competitionLevel |-> l[2],
         priceIndex |-> l[3], trendDirection |-> "stable", marketEvents |-> <<>>]>> :
        l \in InitialLevels }

MarketInit ==
    /\ users = Users
    /\ trainingTasks \in [ExistingTasks -> [initialBudget : Budgets, durationDays : {1}]]
    /\ studentProgress = <<>>
    /\ inventoryRecords = <<>>
    /\ orders = <<>>
    /\ financialRecords = <<>>
    /\ evaluationRecords = <<>>
    /\ marketData \in InitialSnapshots
    /\ negotiation = NoRequest
    /\ calls = <<>>
    /\ last = NoCall
    /\ nops = 0

GenerateMarketDataCall ==
    \E category \in Categories, fd \in Fluctuations, fc \in Fluctuations,
       seasonal \in BOOLEAN, disruption \in BOOLEAN :
        /\ nops < MaxMarketOps
        /\ marketData' = GenerateMarketData(marketData, category, FluctuationNumbers[fd],
                                            FluctuationNumbers[fc], seasonal, disruption)
        /\ last' = [op |-> "generateMarketData", userId |-> "", taskId |-> "",
                    args |-> [category |-> category, demandFluctuation |-> fd,
                              competitionFluctuation |-> fc],
                    result |-> "ok", value |-> <<>>]
        /\ nops' = nops + 1
        /\ UNCHANGED <<users, trainingTasks, studentProgress, inventoryRecords, orders,
                       financialRecords, evaluationRecords, negotiation, calls>>

MarketNext == GenerateMarketDataCall

MarketSpec == MarketInit /\ [][MarketNext]_vars

---------------------------------------------------------------------------
(* Completions of a task whose store earlier calls have filled: the task   *)
(* started, ten units of p1 and one of p2 received, some of p1 sold        *)

\* the inputs of the earlier calls, chosen so that the totals of the
\* completions are all of 0..100: the day is 1 of 1, 2, 4, 10 or 25; the ten
\* units cost between half the budget and all of it; 0 to 10 of them are sold
GradeDurations == {1, 2, 4, 10, 25}
GradeUnitCosts == {500 + 25 * k : k \in 0..20} \cup {515, 535}
GradeSold == {0, 1, 5, 9, 10}

EmptyStore == [progress |-> <<>>, inventory |-> <<>>, orders |-> <<>>,
               financial |-> <<>>, evaluations |-> <<>>]

GradeStore(unitCost, sold) ==
    LET S1 == StartTask(EmptyStore, "u1", "t1").store
        S2 == ProcessIncoming(S1, "u1", "t1", "p1", 10, unitCost, 1).store
        S3 == ProcessIncoming(S2, "u1", "t1", "p2", 1, 0, 1).store
    IN  IF sold = 0 THEN S3
        ELSE CreateSalesOrder(S3, "u1", "t1", <<Item("p1", sold, 0)>>).store

GradeInit ==
    /\ users = Users
    /\ trainingTasks \in [ExistingTasks -> [initialBudget : {10000}, durationDays : GradeDurations]]
    /\ \E unitCost \in GradeUnitCosts, sold \in GradeSold :
          LET S == GradeStore(unitCost, sold) IN
          /\ studentProgress = S.progress
          /\ inventoryRecords = S.inventory
          /\ orders = S.orders
          /\ financialRecords = S.financial
          /\ evaluationRecords = S.evaluations
    /\ marketData = <<>>
    /\ negotiation = NoRequest
    /\ calls = <<>>
    /\ last = NoCall
    /\ nops = 0

GradeNext == CompleteTaskCall

GradeSpec == GradeInit /\ [][GradeNext]_vars

---------------------------------------------------------------------------
(* The calls, storage call by storage call.  A call in flight stands before *)
(* its next storage call (pc) with the values it has read (loc); a step    *)
(* makes that storage call and runs the service's code up to the next one. *)
(* Two calls may be in flight together; a storage call may fail.           *)

NoLocals ==
    [task |-> <<>>, progress |-> <<>>, record |-> <<>>, updated |-> <<>>, items |-> <<>>,
     order |-> <<>>, scores |-> <<>>, inventory |-> <<>>, kpiScores |-> <<>>, day |-> 0,
     after |-> "return"]

\* the first storage call of each operation
FirstCall ==
    [startTask |-> "startTask.getTrainingTask",
     advanceDay |-> "advanceDay.getStudentProgress",
     completeTask |-> "completeTask.getStudentProgress",
     processIncoming |-> "processIncoming.getInventoryRecords",
     processOutgoing |-> "processOutgoing.getInventoryRecords",
     createPurchaseOrder |-> "createPurchaseOrder.getSupplier",
     createSalesOrder |-> "createSalesOrder.getInventoryRecords",
     cancelOrder |-> "cancelOrder.getOrders"]

\* a call as it begins; processIncoming and processOutgoing called directly
\* handle the one item of their arguments
NewCall(op, u, t, args, S) ==
    [op |-> op, userId |-> u, taskId |-> t, args |-> args, pc |-> FirstCall[op],
     loc |-> IF op \in {"processIncoming", "processOutgoing"}
             THEN [NoLocals EXCEPT !.items = <<args>>]
             ELSE NoLocals,
     result |-> "running", value |-> <<>>, before |-> S]

Goto(c, pc, loc) == [c EXCEPT !.pc = pc, !.loc = loc]
Return(c, value) == [c EXCEPT !.pc = "done", !.result = "ok", !.value = value]
Throw(c, error) == [c EXCEPT !.pc = "done", !.result = error]

Step(c, S) == [call |-> c, store |-> S]

\* the end of processIncoming or processOutgoing: back to the loop over the
\* items of the order, or to the caller
AfterItem(c, loc, again) ==
    LET rest == Tail(loc.items) IN
    IF loc.after = "return" THEN Return(c, loc.updated)
    ELSE IF rest # <<>> THEN Goto(c, again, [loc EXCEPT !.items = rest])
    ELSE Goto(c, loc.after, [loc EXCEPT !.items = rest])

\* the store as the call last read it: the rows of the progress read
ProgressAsRead(S, loc) == [S EXCEPT !.progress = loc.progress]

InitialProgress(u, t, task) ==
    [userId |-> u, taskId |-> t,
     currentBalance |-> ToDecimal2(task.initialBudget, 1),
     currentDay |-> 1,
     inventoryValue |-> 0, totalRevenue |-> 0, totalProfit |-> 0,
     kpiScores |-> InitialKpiScores,
     status |-> "active"]

KpiScores(f, o, d, l) ==
    [financial |-> MathRound(f[1], f[2]),
     operational |-> MathRound(o[1], o[2]),
     decision |-> MathRound(d[1], d[2]),
     learning |-> MathRound(l[1], l[2]),
     total |-> TotalScore(f, o, d, l)]

Evaluation(u, t, kpiScores) ==
    [userId |-> u, taskId |-> t,
     financialScore |-> kpiScores.financial,
     operationalScore |-> kpiScores.operational,
     decisionScore |-> kpiScores.decision,
     learningScore |-> kpiScores.learning,
     totalScore |-> kpiScores.total,
     grade |-> Grade(kpiScores.total)]

StartTaskStep(c, S) ==
    LET u == c.userId
        t == c.taskId
        loc == c.loc
    IN  CASE c.pc = "startTask.getTrainingTask" ->
                LET task == GetTrainingTask(t) IN
                IF task = <<>> THEN Step(Throw(c, "NotFound"), S)
                ELSE Step(Goto(c, "startTask.getStudentProgress", [loc EXCEPT !.task = task]), S)
          [] c.pc = "startTask.getStudentProgress" ->
                LET existingProgress == GetStudentProgress(S, u, t) IN
                IF Len(existingProgress) > 0 THEN Step(Return(c, <<existingProgress[1]>>), S)
                ELSE Step(Goto(c, "startTask.createFinancialRecord", loc), S)
          [] c.pc = "startTask.createFinancialRecord" ->
                Step(Goto(c, "startTask.upsertStudentProgress", loc),
                     CreateFinancialRecord(S, u, t, "income", loc.task[1].initialBudget,
                                           "initial", NoOrder))
          [] c.pc = "startTask.upsertStudentProgress" ->
                LET S1 == UpsertStudentProgress(S, InitialProgress(u, t, loc.task[1]))
                IN  Step(Return(c, <<GetStudentProgress(S1, u, t)[1]>>), S1)

\* calculateKPIs and calculateInventoryTurnover: five reads, each score
\* computed from what its read returned
CalculateKPIsStep(c, S) ==
    LET u == c.userId
        t == c.taskId
        loc == c.loc
    IN  CASE c.pc = "calculateKPIs.getFinancialRecords" ->
                Step(Goto(c, "calculateKPIs.getOrders",
                          [loc EXCEPT !.scores = <<FinancialScore(S, u, t)>>]), S)
          [] c.pc = "calculateKPIs.getOrders" ->
                Step(Goto(c, "calculateInventoryTurnover.getInventoryRecords",
                          [loc EXCEPT !.scores = Append(@, OperationalScore(S, u, t))]), S)
          [] c.pc = "calculateInventoryTurnover.getInventoryRecords" ->
                Step(Goto(c, "calculateInventoryTurnover.getOrders",
                          [loc EXCEPT !.inventory = GetInventoryRecords(S, u, t)]), S)
          [] c.pc = "calculateInventoryTurnover.getOrders" ->
                Step(Goto(c, "calculateKPIs.getTrainingTask",
                          [loc EXCEPT !.scores =
                              Append(@, DecisionScore([S EXCEPT !.inventory = loc.inventory], u, t))]), S)
          [] c.pc = "calculateKPIs.getTrainingTask" ->
                Step(Goto(c, loc.after,
                          [loc EXCEPT !.kpiScores =
                              <<KpiScores(loc.scores[1], loc.scores[2], loc.scores[3],
                                          LearningScore(t, loc.day))>>]), S)

AdvanceDayStep(c, S) ==
    LET u == c.userId
        t == c.taskId
        loc == c.loc
    IN  CASE c.pc = "advanceDay.getStudentProgress" ->
                LET progressArray == GetStudentProgress(S, u, t) IN
                IF Len(progressArray) = 0 THEN Step(Throw(c, "NotStarted"), S)
                ELSE Step(Goto(c, "advanceDay.getTrainingTask",
                               [loc EXCEPT !.progress = progressArray]), S)
          [] c.pc = "advanceDay.getTrainingTask" ->
                LET check == AdvanceValidation(ProgressAsRead(S, loc), u, t) IN
                IF check # "ok" THEN Step(Throw(c, check), S)
                ELSE Step(Goto(c, "advanceDay.createFinancialRecord", loc), S)
          [] c.pc = "advanceDay.createFinancialRecord" ->
                Step(Goto(c, "calculateKPIs.getFinancialRecords",
                          [loc EXCEPT !.day = loc.progress[1].currentDay + 1,
                                      !.after = "advanceDay.upsertStudentProgress"]),
                     CreateFinancialRecord(S, u, t, "expense",
                                           DailyCostRecorded(loc.progress[1].currentBalance),
                                           "operational", NoOrder))
          [] c.pc = "advanceDay.upsertStudentProgress" ->
                LET progress == loc.progress[1]
                    S1 == UpsertStudentProgress(S,
                            [progress EXCEPT
                                !.currentDay = progress.currentDay + 1,
                                !.currentBalance = BalanceAfterDailyCost(progress.currentBalance),
                                !.kpiScores = loc.kpiScores[1]])
                IN  Step(Return(c, <<GetStudentProgress(S1, u, t)[1]>>), S1)

CompleteTaskStep(c, S) ==
    LET u == c.userId
        t == c.taskId
        loc == c.loc
    IN  CASE c.pc = "completeTask.getStudentProgress" ->
                LET progressArray == GetStudentProgress(S, u, t) IN
                IF Len(progressArray) = 0 THEN Step(Throw(c, "NotStarted"), S)
                ELSE Step(Goto(c, "calculateKPIs.getFinancialRecords",
                               [loc EXCEPT !.progress = progressArray,
                                           !.day = progressArray[1].currentDay,
                                           !.after = "completeTask.createEvaluationRecord"]), S)
          [] c.pc = "completeTask.createEvaluationRecord" ->
                Step(Goto(c, "completeTask.upsertStudentProgress", loc),
                     CreateEvaluationRecord(S, Evaluation(u, t, loc.kpiScores[1])))
          [] c.pc = "completeTask.upsertStudentProgress" ->
                LET progress == loc.progress[1]
                    withStatus == [col \in DOMAIN progress \cup {"status"} |->
                                     IF col = "status" THEN "completed" ELSE progress[col]]
                IN  Step(Return(c, <<Evaluation(u, t, loc.kpiScores[1])>>),
                         UpsertStudentProgress(S, withStatus))

ProcessIncomingStep(c, S) ==
    LET u == c.userId
        t == c.taskId
        loc == c.loc
        item == Head(loc.items)
        totalCost == item.quantity * item.unitPrice
    IN  CASE c.pc = "processIncoming.getInventoryRecords" ->
                Step(Goto(c, "processIncoming.upsertInventoryRecord",
                          [loc EXCEPT !.record = FindInventory(S, u, t, item.productId)]), S)
          [] c.pc = "processIncoming.upsertInventoryRecord" ->
                LET existingRecord == loc.record
                    row == [userId |-> u, taskId |-> t, productId |-> item.productId,
                            currentStock |-> IF existingRecord # <<>>
                                             THEN existingRecord[1].currentStock + item.quantity
                                             ELSE item.quantity,
                            reservedStock |-> IF existingRecord # <<>>
                                              THEN existingRecord[1].reservedStock ELSE 0]
                IN  Step(Goto(c, "processIncoming.createFinancialRecord",
                              [loc EXCEPT !.updated = <<row>>]),
                         UpsertInventoryRecord(S, row))
          [] c.pc = "processIncoming.createFinancialRecord" ->
                Step(Goto(c, "processIncoming.getStudentProgress", loc),
                     CreateFinancialRecord(S, u, t, "expense", ToDecimal2(totalCost, item.divisor),
                                           "procurement", NoOrder))
          [] c.pc = "processIncoming.getStudentProgress" ->
                LET progress == GetStudentProgress(S, u, t) IN
                IF Len(progress) > 0
                THEN Step(Goto(c, "processIncoming.upsertStudentProgress",
                               [loc EXCEPT !.progress = progress]), S)
                ELSE Step(AfterItem(c, loc, "processIncoming.getInventoryRecords"), S)
          [] c.pc = "processIncoming.upsertStudentProgress" ->
                LET row == IncomingProgressUpdate(ProgressAsRead(S, loc), u, t, totalCost,
                                                  item.divisor).progress[1]
                IN  Step(AfterItem(c, loc, "processIncoming.getInventoryRecords"),
                         UpsertStudentProgress(S, row))

ProcessOutgoingStep(c, S) ==
    LET u == c.userId
        t == c.taskId
        loc == c.loc
        item == Head(loc.items)
        totalRevenue == item.quantity * item.unitPrice
    IN  CASE c.pc = "processOutgoing.getInventoryRecords" ->
                IF InsufficientStockCheck(S, u, t, item.productId, item.quantity)
                THEN Step(Throw(c, "InsufficientStock"), S)
                ELSE Step(Goto(c, "processOutgoing.upsertInventoryRecord",
                               [loc EXCEPT !.record = FindInventory(S, u, t, item.productId)]), S)
          [] c.pc = "processOutgoing.upsertInventoryRecord" ->
                LET row == [loc.record[1] EXCEPT !.currentStock = @ - item.quantity]
                IN  Step(Goto(c, "processOutgoing.createFinancialRecord",
                              [loc EXCEPT !.updated = <<row>>]),
                         UpsertInventoryRecord(S, row))
          [] c.pc = "processOutgoing.createFinancialRecord" ->
                Step(Goto(c, "processOutgoing.getStudentProgress", loc),
                     CreateFinancialRecord(S, u, t, "income", ToDecimal2(totalRevenue, item.divisor),
                                           "sales", NoOrder))
          [] c.pc = "processOutgoing.getStudentProgress" ->
                LET progress == GetStudentProgress(S, u, t) IN
                IF Len(progress) > 0
                THEN Step(Goto(c, "processOutgoing.upsertStudentProgress",
                               [loc EXCEPT !.progress = progress]), S)
                ELSE Step(AfterItem(c, loc, "processOutgoing.getInventoryRecords"), S)
          [] c.pc = "processOutgoing.upsertStudentProgress" ->
                LET row == OutgoingProgressUpdate(ProgressAsRead(S, loc), u, t,
                                                  item.quantity, totalRevenue,
                                                  item.divisor).progress[1]
                IN  Step(AfterItem(c, loc, "processOutgoing.getInventoryRecords"),
                         UpsertStudentProgress(S, row))

\* processPurchaseOrder and processSalesOrder, as createPurchaseOrder and
\* createSalesOrder call them
ProcessOrderStep(c, S) ==
    LET u == c.userId
        t == c.taskId
        loc == c.loc
        purchase == c.pc = "processPurchaseOrder.getOrders"
    IN  CASE c.pc \in {"processPurchaseOrder.getOrders", "processSalesOrder.getOrders"} ->
                LET order == FindOrder(S, u, t, loc.order[1].id) IN
                IF order = <<>> THEN Step(Throw(c, "OrderNotFound"), S)
                ELSE IF order[1].status # "pending" THEN Step(Throw(c, "InvalidState"), S)
                ELSE Step(Goto(c, IF purchase THEN "processIncoming.getInventoryRecords"
                                  ELSE "processOutgoing.getInventoryRecords",
                               [loc EXCEPT !.items = order[1].orderItems,
                                           !.after = IF purchase
                                                     THEN "processPurchaseOrder.updateOrder"
                                                     ELSE "processSalesOrder.updateOrder"]), S)
          [] c.pc \in {"processPurchaseOrder.updateOrder", "processSalesOrder.updateOrder"} ->
                \* the caller returns the order object createOrder gave
                Step(Return(c, loc.order),
                     UpdateOrder(S, loc.order[1].id, StatusAfterProcessing))

CreateOrderStep(c, S) ==
    LET u == c.userId
        t == c.taskId
        loc == c.loc
    IN  CASE c.pc = "createPurchaseOrder.getSupplier" ->
                IF GetSupplier(c.args.supplierId) = <<>>
                THEN Step(Throw(c, "SupplierNotFound"), S)
                ELSE Step(Goto(c, "createPurchaseOrder.getStudentProgress", loc), S)
          [] c.pc = "createPurchaseOrder.getStudentProgress" ->
                LET check == PurchaseValidation(S, u, t, c.args.supplierId, c.args.items) IN
                IF check # "ok" THEN Step(Throw(c, check), S)
                ELSE Step(Goto(c, "createPurchaseOrder.createOrder", loc), S)
          [] c.pc = "createSalesOrder.getInventoryRecords" ->
                LET check == SalesValidation(S, u, t, c.args.items) IN
                IF check # "ok" THEN Step(Throw(c, check), S)
                ELSE Step(Goto(c, "createSalesOrder.createOrder", loc), S)
          [] c.pc \in {"createPurchaseOrder.createOrder", "createSalesOrder.createOrder"} ->
                LET purchase == c.pc = "createPurchaseOrder.createOrder"
                    S1 == CreateOrder(S, [userId |-> u, taskId |-> t,
                                          orderType |-> IF purchase THEN "purchase" ELSE "sale",
                                          totalAmount |-> ToDecimal2(TotalAmount(c.args.items),
                                                                     CommonDivisor(c.args.items)),
                                          status |-> "pending", orderItems |-> c.args.items])
                IN  Step(Goto(c, IF purchase THEN "processPurchaseOrder.getOrders"
                                 ELSE "processSalesOrder.getOrders",
                              [loc EXCEPT !.order = <<S1.orders[Len(S1.orders)]>>]), S1)

CancelOrderStep(c, S) ==
    LET u == c.userId
        t == c.taskId
        loc == c.loc
    IN  CASE c.pc = "cancelOrder.getOrders" ->
                LET check == CancelValidation(S, c.args.orderId, u, t) IN
                IF check # "ok" THEN Step(Throw(c, check), S)
                ELSE Step(Goto(c, "cancelOrder.updateOrder", loc), S)
          [] c.pc = "cancelOrder.updateOrder" ->
                LET S1 == UpdateOrder(S, c.args.orderId, "cancelled")
                IN  Step(Goto(c, "cancelOrder.createFinancialRecord",
                              [loc EXCEPT !.order = FindOrder(S1, u, t, c.args.orderId)]), S1)
          [] c.pc = "cancelOrder.createFinancialRecord" ->
                Step(Return(c, loc.order),
                     CreateFinancialRecord(S, u, t, "expense", 0, "operational", c.args.orderId))

StartTaskCalls ==
    {"startTask.getTrainingTask", "startTask.getStudentProgress",
     "startTask.createFinancialRecord", "startTask.upsertStudentProgress"}

AdvanceDayCalls ==
    {"advanceDay.getStudentProgress", "advanceDay.getTrainingTask",
     "advanceDay.createFinancialRecord", "advanceDay.upsertStudentProgress"}

CompleteTaskCalls ==
    {"completeTask.getStudentProgress", "completeTask.createEvaluationRecord",
     "completeTask.upsertStudentProgress"}

CalculateKPIsCalls ==
    {"calculateKPIs.getFinancialRecords", "calculateKPIs.getOrders",
     "calculateInventoryTurnover.getInventoryRecords", "calculateInventoryTurnover.getOrders",
     "calculateKPIs.getTrainingTask"}

ProcessIncomingCalls ==
    {"processIncoming.getInventoryRecords", "processIncoming.upsertInventoryRecord",
     "processIncoming.createFinancialRecord", "processIncoming.getStudentProgress",
     "processIncoming.upsertStudentProgress"}

ProcessOutgoingCalls ==
    {"processOutgoing.getInventoryRecords", "processOutgoing.upsertInventoryRecord",
     "processOutgoing.createFinancialRecord", "processOutgoing.getStudentProgress",
     "processOutgoing.upsertStudentProgress"}

ProcessOrderCalls ==
    {"processPurchaseOrder.getOrders", "processPurchaseOrder.updateOrder",
     "processSalesOrder.getOrders", "processSalesOrder.updateOrder"}

CreateOrderCalls ==
    {"createPurchaseOrder.getSupplier", "createPurchaseOrder.getStudentProgress",
     "createPurchaseOrder.createOrder", "createSalesOrder.getInventoryRecords",
     "createSalesOrder.createOrder"}

CancelOrderCalls ==
    {"cancelOrder.getOrders", "cancelOrder.updateOrder", "cancelOrder.createFinancialRecord"}

\* the next storage call of the call c is made on the store S
StorageCall(c, S) ==
    CASE c.pc \in StartTaskCalls -> StartTaskStep(c, S)
      [] c.pc \in AdvanceDayCalls -> AdvanceDayStep(c, S)
      [] c.pc \in CompleteTaskCalls -> CompleteTaskStep(c, S)
      [] c.pc \in CalculateKPIsCalls -> CalculateKPIsStep(c, S)
      [] c.pc \in ProcessIncomingCalls -> ProcessIncomingStep(c, S)
      [] c.pc \in ProcessOutgoingCalls -> ProcessOutgoingStep(c, S)
      [] c.pc \in ProcessOrderCalls -> ProcessOrderStep(c, S)
      [] c.pc \in CreateOrderCalls -> CreateOrderStep(c, S)
      [] c.pc \in CancelOrderCalls -> CancelOrderStep(c, S)

\* the two calls of a run
TwoCalls == {1, 2}

\* the stores a run begins with: nothing started; the task started, balance
\* 50.00; two units of p1 bought with the whole balance
StartedStore == StartTask(EmptyStore, "u1", "t1").store
StockedStore == CreatePurchaseOrder(StartedStore, "u1", "t1", "s1", <<Item("p1", 2, 2500)>>).store

Requests ==
    {[op |-> op, args |-> <<>>] : op \in {"startTask", "advanceDay", "completeTask"}}
    \cup {[op |-> "processIncoming", args |-> Item("p1", q, c)] : q \in Quantities, c \in UnitCosts}
    \cup {[op |-> "processOutgoing", args |-> Item("p1", q, c)] : q \in Quantities, c \in UnitPrices}
    \cup {[op |-> "createPurchaseOrder", args |-> [supplierId |-> "s1", items |-> items]] :
            items \in PurchaseItemLists}
    \cup {[op |-> "createSalesOrder", args |-> [items |-> items]] : items \in SaleItemLists}
    \cup {[op |-> "cancelOrder", args |-> [orderId |-> id]] : id \in OrderIds}

InFlight(c) == c.pc # "done"

StepInit ==
    /\ users = Users
    /\ trainingTasks = [t \in ExistingTasks |-> [initialBudget |-> 5000, durationDays |-> 3]]
    /\ \E S \in {EmptyStore, StartedStore, StockedStore} :
          /\ studentProgress = S.progress
          /\ inventoryRecords = S.inventory
          /\ orders = S.orders
          /\ financialRecords = S.financial
          /\ evaluationRecords = S.evaluations
    /\ marketData = <<>>
    /\ negotiation = NoRequest
    /\ calls = <<>>
    /\ last = NoCall
    /\ nops = 0

\* a request arrives: its call begins, whether or not the other call has ended
BeginCall ==
    \E u \in users, t \in DOMAIN trainingTasks, r \in Requests :
        /\ Len(calls) < Cardinality(TwoCalls)
        /\ calls' = Append(calls, NewCall(r.op, u, t, r.args, Store))
        /\ UNCHANGED <<users, trainingTasks, studentProgress, inventoryRecords, orders,
                       financialRecords, evaluationRecords, marketData, negotiation, last, nops>>

\* a call in flight makes its next storage call
StorageCallReturns ==
    \E i \in DOMAIN calls :
        /\ InFlight(calls[i])
        /\ LET r == StorageCall(calls[i], Store) IN
           /\ calls' = [calls EXCEPT ![i] = r.call]
           /\ studentProgress' = r.store.progress
           /\ inventoryRecords' = r.store.inventory
           /\ orders' = r.store.orders
           /\ financialRecords' = r.store.financial
           /\ evaluationRecords' = r.store.evaluations
        /\ UNCHANGED <<users, trainingTasks, marketData, negotiation, last, nops>>

\* the next storage call of the first call, running alone, throws: the
\* services catch nothing, the call ends with the error
StorageCallThrows ==
    /\ Len(calls) = 1
    /\ InFlight(calls[1])
    /\ calls' = [calls EXCEPT ![1] = Throw(@, "StorageError")]
    /\ UNCHANGED <<users, trainingTasks, studentProgress, inventoryRecords, orders,
                   financialRecords, evaluationRecords, marketData, negotiation, last, nops>>

StepNext ==
    \/ BeginCall
    \/ StorageCallReturns
    \/ StorageCallThrows

StepSpec == StepInit /\ [][StepNext]_vars

---------------------------------------------------------------------------
(* The order calls of one student, one at a time, on a started task *)

OrderInit ==
    /\ users = Users
    /\ trainingTasks = [t \in ExistingTasks |-> [initialBudget |-> 5000, durationDays |-> 3]]
    /\ \E S \in {StartedStore, StockedStore} :
          /\ studentProgress = S.progress
          /\ inventoryRecords = S.inventory
          /\ orders = S.orders
          /\ financialRecords = S.financial
          /\ evaluationRecords = S.evaluations
    /\ marketData = <<>>
    /\ negotiation = NoRequest
    /\ calls = <<>>
    /\ last = NoCall
    /\ nops = 0

OrderNext ==
    \/ CreatePurchaseOrderCall
    \/ CreateSalesOrderCall
    \/ ProcessPurchaseOrderCall
    \/ ProcessSalesOrderCall
    \/ CancelOrderCall

OrderSpec == OrderInit /\ [][OrderNext]_vars

---------------------------------------------------------------------------
(* The calls of one student, one at a time, on a freshly started task of   *)
(* one, two or three days                                                  *)

DayDurations == {1, 2, 3}

DayInit ==
    /\ users = Users
    /\ trainingTasks \in [ExistingTasks -> [initialBudget : Budgets, durationDays : DayDurations]]
    /\ studentProgress = StartedStore.progress
    /\ inventoryRecords = StartedStore.inventory
    /\ orders = StartedStore.orders
    /\ financialRecords = StartedStore.financial
    /\ evaluationRecords = StartedStore.evaluations
    /\ marketData = <<>>
    /\ negotiation = NoRequest
    /\ calls = <<>>
    /\ last = NoCall
    /\ nops = 0

DaySpec == DayInit /\ [][Next]_vars

---------------------------------------------------------------------------
(* Properties *)

StoreNext == [progress |-> studentProgress', inventory |-> inventoryRecords',
              orders |-> orders', financial |-> financialRecords',
              evaluations |-> evaluationRecords']

HasProgress(S, u, t) == Len(GetStudentProgress(S, u, t)) > 0

Balance(S, u, t) == GetStudentProgress(S, u, t)[1].currentBalance

\* stock of a product, 0 when it has no inventory record
Stock(S, u, t, p) ==
    LET r == FindInventory(S, u, t, p) IN IF r = <<>> THEN 0 ELSE r[1].currentStock

\* the balance the ledger implies: the budget, minus the expenses, plus the
\* income other than the seed record
LedgerBalance(S, u, t) ==
    LET records == GetFinancialRecords(S, u, t)
        seed == SelectSeq(records, LAMBDA r : r.recordType = "income" /\ r.category = "initial")
    IN  trainingTasks[t].initialBudget
          - SumAmounts(records, "expense")
          + (SumAmounts(records, "income") - SumSeq([i \in 1..Len(seed) |-> seed[i].amount]))

\* the key's ledger begins with the seed record: startTask came before every
\* call that writes to the ledger
StartedFirst(S, u, t) ==
    LET records == GetFinancialRecords(S, u, t)
    IN  records # <<>> /\ records[1].category = "initial"

\* C1: balance conservation.  In every state reached from a successful
\* startTask by ledger-writing calls made one at a time, currentBalance equals
\* initialBudget minus the expense records plus the income records other than
\* the seed.
C1_BalanceConservation ==
    \A k \in Keys :
        (HasProgress(Store, k[1], k[2]) /\ StartedFirst(Store, k[1], k[2]))
            => Balance(Store, k[1], k[2]) = LedgerBalance(Store, k[1], k[2])

\* C2: stock non-negativity.  Every currentStock is >= 0 after every call;
\* processOutgoing is rejected with InsufficientStock exactly when the
\* product has no record or the quantity exceeds its stock, and then no
\* inventory record changes.
C2_StockNonNegative ==
    [][ /\ \A i \in 1..Len(inventoryRecords') : inventoryRecords'[i].currentStock >= 0
        /\ last'.op = "processOutgoing" =>
              LET noRecord == FindInventory(Store, last'.userId, last'.taskId, last'.args.productId) = <<>>
                  stock == Stock(Store, last'.userId, last'.taskId, last'.args.productId)
              IN  /\ (last'.result = "InsufficientStock") <=> (noRecord \/ last'.args.quantity > stock)
                  /\ last'.result = "InsufficientStock" => inventoryRecords' = inventoryRecords
      ]_vars

\* an outgoing request for more than the stock held was rejected
C2_Witness ==
    /\ last.op = "processOutgoing"
    /\ last.result = "InsufficientStock"
    /\ Stock(Store, last.userId, last.taskId, last.args.productId) > 0
    /\ last.args.quantity > Stock(Store, last.userId, last.taskId, last.args.productId)

\* C3: createSalesOrder is all-or-nothing.  The call either applies every
\* item and stores the order as completed, or fails with InsufficientStock
\* and changes nothing.
C3_SalesAllOrNothing ==
    [][ last'.op = "createSalesOrder" =>
          \/ /\ last'.result = "ok"
             /\ Len(orders') = Len(orders) + 1
             /\ orders'[Len(orders')].status = "completed"
          \/ /\ last'.result = "InsufficientStock"
             /\ UNCHANGED storeVars
      ]_vars

InitialRecords(S, u, t) ==
    SelectSeq(GetFinancialRecords(S, u, t),
              LAMBDA r : r.recordType = "income" /\ r.category = "initial")

\* C4: startTask is idempotent.  A startTask for a key that already has a
\* progress row returns that row, changes nothing in the store, and every
\* key with a progress row has exactly one initial income record.
C4_StartTaskIdempotent ==
    [][ /\ (last'.op = "startTask" /\ HasProgress(Store, last'.userId, last'.taskId)) =>
              /\ last'.result = "ok"
              /\ last'.value = <<GetStudentProgress(Store, last'.userId, last'.taskId)[1]>>
              /\ UNCHANGED storeVars
        /\ \A k \in Keys :
              HasProgress(StoreNext, k[1], k[2]) => Len(InitialRecords(StoreNext, k[1], k[2])) = 1
      ]_vars

\* a further startTask was made on a task that had been advanced
C4_Witness ==
    /\ last.op = "startTask"
    /\ last.result = "ok"
    /\ HasProgress(Store, last.userId, last.taskId)
    /\ GetStudentProgress(Store, last.userId, last.taskId)[1].currentDay > 1
    /\ Len(InitialRecords(Store, last.userId, last.taskId)) = 1

\* the quantity x unit price total of an item list
ItemsTotal(items) == SumSeq([i \in 1..Len(items) |-> items[i].quantity * items[i].unitPrice])

\* the units of product p in an item list
ItemsQuantity(items, p) ==
    SumSeq([i \in 1..Len(items) |-> IF items[i].productId = p THEN items[i].quantity ELSE 0])

\* the order with this id that belongs to the key, if any
OwnedOrder(u, t, id) ==
    IF id \in 1..Len(orders) /\ orders[id].userId = u /\ orders[id].taskId = t
    THEN <<orders[id]>> ELSE <<>>

\* the validation of call l fails in the current state
ValidationFails(l) ==
    LET u == l.userId
        t == l.taskId
    IN  \/ l.op = "startTask" /\ t \notin DOMAIN trainingTasks
        \/ l.op = "advanceDay" /\
              (~HasProgress(Store, u, t) \/
               GetStudentProgress(Store, u, t)[1].currentDay >= trainingTasks[t].durationDays)
        \/ l.op = "completeTask" /\ ~HasProgress(Store, u, t)
        \/ l.op = "createPurchaseOrder" /\
              (\/ l.args.supplierId \notin ExistingSuppliers
               \/ ~HasProgress(Store, u, t)
               \/ Balance(Store, u, t) < ItemsTotal(l.args.items))
        \/ l.op = "processOutgoing" /\ Stock(Store, u, t, l.args.productId) < l.args.quantity
        \/ l.op = "cancelOrder" /\
              (OwnedOrder(u, t, l.args.orderId) = <<>> \/
               OwnedOrder(u, t, l.args.orderId)[1].status = "completed")

\* C5: fail-fast validation.  A call of startTask, advanceDay, completeTask,
\* createPurchaseOrder, processOutgoing or cancelOrder whose validation fails
\* is rejected and leaves the whole store as it was.
C5_FailFast ==
    [][ ValidationFails(last') => (last'.result # "ok" /\ UNCHANGED storeVars) ]_vars

\* a purchase was refused for lack of funds in a store that holds orders
C5_Witness ==
    /\ last.op = "createPurchaseOrder"
    /\ last.result = "InsufficientFunds"
    /\ orders # <<>>
    /\ financialRecords # <<>>

Day(S, u, t) == GetStudentProgress(S, u, t)[1].currentDay

\* C6: day bounds and monotonicity.  1 <= currentDay <= durationDays in every
\* state; a successful advanceDay adds exactly 1, no call lowers currentDay,
\* and advanceDay fails with AlreadyComplete whenever currentDay >= durationDays.
C6_DayBounds ==
    [][ /\ \A i \in 1..Len(studentProgress') :
              /\ studentProgress'[i].currentDay >= 1
              /\ studentProgress'[i].currentDay <= trainingTasks[studentProgress'[i].taskId].durationDays
        /\ \A k \in Keys :
              HasProgress(Store, k[1], k[2]) =>
                  /\ HasProgress(StoreNext, k[1], k[2])
                  /\ Day(StoreNext, k[1], k[2]) >= Day(Store, k[1], k[2])
        /\ (last'.op = "advanceDay" /\ last'.result = "ok") =>
              /\ HasProgress(Store, last'.userId, last'.taskId)
              /\ Day(StoreNext, last'.userId, last'.taskId) = Day(Store, last'.userId, last'.taskId) + 1
        /\ (/\ last'.op = "advanceDay"
            /\ HasProgress(Store, last'.userId, last'.taskId)
            /\ Day(Store, last'.userId, last'.taskId) >= trainingTasks[last'.taskId].durationDays) =>
              last'.result = "AlreadyComplete"
      ]_vars

\* advanceDay was refused on the last day of a three-day task
C6_Witness ==
    /\ last.op = "advanceDay"
    /\ last.result = "AlreadyComplete"
    /\ Day(Store, last.userId, last.taskId) = 3
    /\ trainingTasks[last.taskId].durationDays = 3

\* C7: order status transitions.  No order row disappears; a status changes
\* only from pending to completed or cancelled; a new order is left pending
\* or completed; cancelOrder on a completed order fails.
C7_OrderStatus ==
    [][ /\ Len(orders') >= Len(orders)
        /\ \A i \in 1..Len(orders) :
              orders'[i].status # orders[i].status =>
                  /\ orders[i].status = "pending"
                  /\ orders'[i].status \in {"completed", "cancelled"}
        /\ \A i \in (Len(orders) + 1)..Len(orders') :
              orders'[i].status \in {"pending", "completed"}
        /\ (/\ last'.op = "cancelOrder"
            /\ OwnedOrder(last'.userId, last'.taskId, last'.args.orderId) # <<>>
            /\ OwnedOrder(last'.userId, last'.taskId, last'.args.orderId)[1].status = "completed") =>
              last'.result = "AlreadyCompleted"
      ]_vars

\* processing was refused for an order that had been cancelled
C7_Witness ==
    /\ last.op \in {"processSalesOrder", "processPurchaseOrder"}
    /\ last.result = "InvalidState"
    /\ last.args.orderId \in 1..Len(orders)
    /\ orders[last.args.orderId].status = "cancelled"

ScoresInRange(scores) == \A f \in DOMAIN scores : scores[f] \in 0..100

\* C9: KPI bounds.  The scores calculateKPIs produces in any state of a
\* started key, those stored in the progress row and those written into an
\* evaluation record are all integers in 0..100.
C9_KpiBounds ==
    /\ \A i \in 1..Len(studentProgress) :
          /\ ScoresInRange(studentProgress[i].kpiScores)
          /\ ScoresInRange(CalculateKPIs(Store, studentProgress[i].userId,
                                         studentProgress[i].taskId,
                                         studentProgress[i].currentDay))
    /\ \A i \in 1..Len(evaluationRecords) :
          \A f \in {"financialScore", "operationalScore", "decisionScore",
                    "learningScore", "totalScore"} :
              evaluationRecords[i][f] \in 0..100

\* an evaluation was written while the expenses exceeded the income
C9_Witness ==
    /\ last.op = "completeTask"
    /\ last.result = "ok"
    /\ evaluationRecords # <<>>
    /\ SumAmounts(GetFinancialRecords(Store, last.userId, last.taskId), "expense")
         > SumAmounts(GetFinancialRecords(Store, last.userId, last.taskId), "income")
    /\ evaluationRecords[Len(evaluationRecords)].financialScore = 0

\* C10: every successful processIncoming or processOutgoing moves the stock
\* by the quantity, appends exactly one financial record of quantity x unit
\* price, and moves the key's currentBalance by that amount, whether or not a
\* progress row existed when the call was made.
C10_ThreeChangesTogether ==
    [][ (last'.op \in {"processIncoming", "processOutgoing"} /\ last'.result = "ok") =>
          LET u == last'.userId
              t == last'.taskId
              q == last'.args.quantity
              amount == last'.args.quantity * last'.args.unitPrice
              sign == IF last'.op = "processIncoming" THEN 1 ELSE 0 - 1
          IN  /\ Stock(StoreNext, u, t, last'.args.productId)
                    = Stock(Store, u, t, last'.args.productId) + sign * q
              /\ Len(financialRecords') = Len(financialRecords) + 1
              /\ financialRecords'[Len(financialRecords')].amount = amount
              /\ financialRecords'[Len(financialRecords')].recordType
                    = (IF sign = 1 THEN "expense" ELSE "income")
              /\ HasProgress(StoreNext, u, t)
              /\ HasProgress(Store, u, t) =>
                    Balance(StoreNext, u, t) = Balance(Store, u, t) - sign * amount
      ]_vars

GetEvaluationRecords(S, u, t) ==
    SelectSeq(S.evaluations, LAMBDA r : r.userId = u /\ r.taskId = t)

\* completeTask has succeeded for the key: it is the only writer of evaluations
Completed(S, u, t) == Len(GetEvaluationRecords(S, u, t)) > 0

\* C11: at most one evaluation record exists per (userId, taskId) in every
\* state: the first successful completeTask creates it and later completeTask
\* calls for the key add none.
C11_OneEvaluationPerKey ==
    \A k \in Keys : Len(GetEvaluationRecords(Store, k[1], k[2])) <= 1

CoreOperations ==
    {"advanceDay", "processIncoming", "processOutgoing", "createPurchaseOrder",
     "createSalesOrder", "startTask"}

\* C12: completed is terminal.  Once completeTask has succeeded for a key, no
\* later advanceDay, processIncoming, processOutgoing, createPurchaseOrder,
\* createSalesOrder or startTask on that key changes the currentDay or the
\* currentBalance of its progress row.
C12_CompletedIsTerminal ==
    [][ (/\ last'.op \in CoreOperations
         /\ last'.taskId \in DOMAIN trainingTasks
         /\ Completed(Store, last'.userId, last'.taskId)) =>
            /\ Day(StoreNext, last'.userId, last'.taskId) = Day(Store, last'.userId, last'.taskId)
            /\ Balance(StoreNext, last'.userId, last'.taskId)
                  = Balance(Store, last'.userId, last'.taskId)
      ]_vars

\* the categories of the ledger, in the order the records were appended: the
\* successful ledger-writing calls made so far
LedgerCategories == [i \in 1..Len(financialRecords) |-> financialRecords[i].category]

ScenarioProgress == GetStudentProgress(Store, "u1", "t1")[1]

\* C13: on a task of budget 10000.00 and five days, startTask leaves balance
\* 10000.00 and day 1; advanceDay then records one expense of 100.00 and
\* leaves balance 9900.00 and day 2; the purchase of ten units at 50.00 then
\* leaves balance 9400.00 and inventoryValue 500.00 higher; the sale of five
\* of them at 80.00 then leaves stock 5, balance 9800.00, totalRevenue 400.00.
C13_Scenario ==
    /\ LedgerCategories = <<"initial">> =>
          /\ ScenarioProgress.currentBalance = 1000000
          /\ ScenarioProgress.currentDay = 1
    /\ LedgerCategories = <<"initial", "operational">> =>
          /\ financialRecords[2].recordType = "expense"
          /\ financialRecords[2].amount = 10000
          /\ ScenarioProgress.currentBalance = 990000
          /\ ScenarioProgress.currentDay = 2
    /\ LedgerCategories = <<"initial", "operational", "procurement">> =>
          /\ ScenarioProgress.currentBalance = 940000
          /\ ScenarioProgress.currentDay = 2
          /\ ScenarioProgress.inventoryValue = 50000
          /\ Stock(Store, "u1", "t1", "p1") = 10
    /\ LedgerCategories = <<"initial", "operational", "procurement", "sales">> =>
          /\ Stock(Store, "u1", "t1", "p1") = 5
          /\ ScenarioProgress.currentBalance = 980000
          /\ ScenarioProgress.totalRevenue = 40000
          /\ ScenarioProgress.currentDay = 2

\* the four calls were made in the order of the scenario, each with success
C13_Witness ==
    /\ LedgerCategories = <<"initial", "operational", "procurement", "sales">>
    /\ last.op = "createSalesOrder"
    /\ last.result = "ok"
    /\ nops = 4
    /\ Len(orders) = 2
    /\ orders[1].status = "completed"
    /\ orders[2].status = "completed"

\* C14: a successful advanceDay appends exactly one expense record whose
\* amount is 1% of the balance before the call (at the scale of the column),
\* lowers currentBalance by that same amount, adds 1 to currentDay, and stores
\* the kpiScores computed from the state after the advance: the ledger with
\* the new expense record and the incremented day.
C14_AdvanceDayEffects ==
    [][ (last'.op = "advanceDay" /\ last'.result = "ok") =>
          LET u == last'.userId
              t == last'.taskId
              before == GetStudentProgress(Store, u, t)[1]
              after == GetStudentProgress(StoreNext, u, t)[1]
              record == financialRecords'[Len(financialRecords')]
          IN  /\ Len(financialRecords') = Len(financialRecords) + 1
              /\ SubSeq(financialRecords', 1, Len(financialRecords)) = financialRecords
              /\ record.recordType = "expense"
              /\ record.userId = u /\ record.taskId = t
              /\ record.amount = ToDecimal2(before.currentBalance, 100)
              /\ after.currentDay = before.currentDay + 1
              /\ after.kpiScores = [f \in DOMAIN after.kpiScores |->
                                       CalculateKPIs(StoreNext, u, t, after.currentDay)[f]]
              /\ after.currentBalance = before.currentBalance - record.amount
      ]_vars

C16_CancelOrderFrame ==
    [][ (last'.op = "cancelOrder" /\ last'.result = "ok") =>
          LET u == last'.userId
              t == last'.taskId
              id == last'.args.orderId
              record == financialRecords'[Len(financialRecords')]
          IN  /\ id \in 1..Len(orders)
              /\ orders' = [orders EXCEPT ![id].status = "cancelled"]
              /\ Len(financialRecords') = Len(financialRecords) + 1
              /\ SubSeq(financialRecords', 1, Len(financialRecords)) = financialRecords
              /\ record.recordType = "expense"
              /\ record.amount = 0
              /\ record.relatedOrderId = id
              /\ record.userId = u /\ record.taskId = t
              /\ UNCHANGED <<studentProgress, inventoryRecords, evaluationRecords>>
              /\ \A k \in Keys : \A ty \in {"income", "expense"} :
                    SumAmounts(GetFinancialRecords(StoreNext, k[1], k[2]), ty)
                       = SumAmounts(GetFinancialRecords(Store, k[1], k[2]), ty)
      ]_vars

\* a pending order of a started key with stock and a non-empty ledger was
\* cancelled
C16_Witness ==
    /\ last.op = "cancelOrder"
    /\ last.result = "ok"
    /\ orders[last.args.orderId].status = "cancelled"
    /\ orders[last.args.orderId].totalAmount > 0
    /\ financialRecords[Len(financialRecords)].relatedOrderId = last.args.orderId
    /\ Len(financialRecords) > 1
    /\ inventoryRecords # <<>>

\* the request of a negotiation that was answered, in exact arithmetic: the
\* base price in tenths, the difference to the requested price in tenths (the
\* discount times the base price), and maxDiscount in thousandths
BaseTenths == ProductUnitPrices[negotiation.productId] \div 10
OffTenths == BaseTenths - negotiation.requestedPrice
MaxDiscountThousandths == 150 + Min(negotiation.quantity, 100)

\* C17: negotiatePrice answers in four bands of
\* discount = (basePrice - requestedPrice) / basePrice against
\* maxDiscount = 0.15 + min(quantity / 100, 1) x 0.10: discount <= 0 and
\* 0 < discount <= maxDiscount are accepted at the requested price;
\* maxDiscount < discount <= maxDiscount + 0.05 is rejected with the counter
\* offer basePrice x (1 - maxDiscount); a larger discount is rejected at the
\* base price.  maxDiscount lies in [0.15, 0.25], and base price 100, quantity
\* 150, requested price 80 is accepted at 80.
C17_NegotiationBands ==
    negotiation.answer.result = "ok" =>
        LET answer == negotiation.answer
            accept == OffTenths * 1000 <= MaxDiscountThousandths * BaseTenths
            counter == /\ ~accept
                       /\ OffTenths * 1000 <= (MaxDiscountThousandths + 50) * BaseTenths
            maxDiscount == MaxDiscount(negotiation.quantity)
        IN  /\ DLeq(Decimal(15, 100), maxDiscount) /\ DLeq(maxDiscount, Decimal(25, 100))
            /\ answer.accepted <=> accept
            /\ accept => DEq(answer.finalPrice, Decimal(negotiation.requestedPrice, 10))
            /\ counter =>
                  ToFixed2(answer.finalPrice)
                     = (BaseTenths * (1000 - MaxDiscountThousandths) + 50) \div 100
            /\ (~accept /\ ~counter) =>
                  DEq(answer.finalPrice, Decimal(ProductUnitPrices[negotiation.productId], 100))
            /\ (/\ negotiation.productId = "p1" /\ negotiation.quantity = 150
                /\ negotiation.requestedPrice = 800) =>
                  answer.accepted /\ DEq(answer.finalPrice, FromInt(80))

\* C18: negotiation is monotone in the requested price.  For a fixed supplier,
\* product and quantity, when a requested price is accepted every requested
\* price that is at least as high is accepted too.
C18_NegotiationMonotone ==
    (negotiation.answer.result = "ok" /\ negotiation.answer.accepted) =>
        \A higher \in RequestedPrices :
            higher >= negotiation.requestedPrice =>
                NegotiatePrice(negotiation.supplierId, negotiation.productId,
                               Decimal(higher, 10), negotiation.quantity).accepted

\* a discounted request was accepted while, for the same supplier, product
\* and quantity, a lower request is refused and a request above the base
\* price exists
C18_Witness ==
    /\ negotiation.answer.result = "ok"
    /\ negotiation.answer.accepted
    /\ negotiation.answer.message = "acceptForQuantity"
    /\ \E lower \in RequestedPrices :
          /\ lower < negotiation.requestedPrice
          /\ ~NegotiatePrice(negotiation.supplierId, negotiation.productId,
                             Decimal(lower, 10), negotiation.quantity).accepted
    /\ \E higher \in RequestedPrices : higher > BaseTenths

\* C19: market bounds.  After any number of generateMarketData calls, from no
\* snapshot or from a snapshot within the ranges, with fluctuations in
\* [-10, +10], every stored demandLevel and competitionLevel is an integer in
\* 0..100 and every stored priceIndex lies in [0.50, 2.00].
C19_MarketBounds ==
    \A i \in 1..Len(marketData) :
        /\ marketData[i].demandLevel \in 0..100
        /\ marketData[i].competitionLevel \in 0..100
        /\ marketData[i].priceIndex \in 50..200

\* a call pushed a price index of 2.00 against the upper end, with the demand
\* clamped at 100 and the competition clamped at 0
C19_Witness ==
    /\ last.op = "generateMarketData"
    /\ \E i \in 1..Len(marketData) :
          /\ marketData[i].category = last.args.category
          /\ marketData[i].demandLevel = 100
          /\ marketData[i].competitionLevel = 0
          /\ marketData[i].priceIndex = 200
          /\ last.args.demandFluctuation = 99
          /\ last.args.competitionFluctuation = 0 - 100

\* the rows of a table that belong to a key other than (u, t)
OthersRows(table, u, t) == SelectSeq(table, LAMBDA r : ~(r.userId = u /\ r.taskId = t))

\* C20: student isolation.  A call made for (userId, taskId) leaves every
\* progress row, inventory record, order, financial record and evaluation
\* record of every other key as it was; cancelOrder given the id of an order
\* of another key fails with OrderNotFound and leaves that order as it was.
C20_StudentIsolation ==
    [][ last'.op # "none" =>
          /\ OthersRows(studentProgress', last'.userId, last'.taskId)
                = OthersRows(studentProgress, last'.userId, last'.taskId)
          /\ OthersRows(inventoryRecords', last'.userId, last'.taskId)
                = OthersRows(inventoryRecords, last'.userId, last'.taskId)
          /\ OthersRows(orders', last'.userId, last'.taskId)
                = OthersRows(orders, last'.userId, last'.taskId)
          /\ OthersRows(financialRecords', last'.userId, last'.taskId)
                = OthersRows(financialRecords, last'.userId, last'.taskId)
          /\ OthersRows(evaluationRecords', last'.userId, last'.taskId)
                = OthersRows(evaluationRecords, last'.userId, last'.taskId)
          /\ (/\ last'.op = "cancelOrder"
              /\ last'.args.orderId \in 1..Len(orders)
              /\ ~(/\ orders[last'.args.orderId].userId = last'.userId
                   /\ orders[last'.args.orderId].taskId = last'.taskId)) =>
                /\ last'.result = "OrderNotFound"
                /\ orders'[last'.args.orderId] = orders[last'.args.orderId]
      ]_vars

\* a student's cancelOrder named a pending order of the other student and
\* was refused
C20_Witness ==
    /\ last.op = "cancelOrder"
    /\ last.result = "OrderNotFound"
    /\ last.args.orderId \in 1..Len(orders)
    /\ orders[last.args.orderId].userId # last.userId
    /\ orders[last.args.orderId].taskId = last.taskId
    /\ orders[last.args.orderId].status = "pending"

---------------------------------------------------------------------------
\* C21: the grade completeTask writes is A for a total of 90 or more, B from
\* 80, C from 70, D from 60 and F below, the total being a whole number in
\* 0..100, and the totalScore stored in the evaluation record is that total.
ThresholdGrade(total) ==
    CHOOSE g \in {"A", "B", "C", "D", "F"} :
        /\ g = "A" <=> total >= 90
        /\ g = "B" <=> (80 <= total /\ total < 90)
        /\ g = "C" <=> (70 <= total /\ total < 80)
        /\ g = "D" <=> (60 <= total /\ total < 70)

C21_GradeOfTotal ==
    [][(last'.op = "completeTask" /\ last'.result = "ok") =>
        LET u == last'.userId
            t == last'.taskId
            total == CalculateKPIs(Store, u, t, GetStudentProgress(Store, u, t)[1].currentDay).total
            written == evaluationRecords'[Len(evaluationRecords')]
        IN  /\ Len(evaluationRecords') = Len(evaluationRecords) + 1
            /\ total \in 0..100
            /\ written.totalScore = total
            /\ written.grade = ThresholdGrade(total)
            /\ last'.value = <<written>>]_vars

\* a completion with a total of exactly 90, graded A
C21_Witness ==
    /\ last.op = "completeTask"
    /\ last.result = "ok"
    /\ evaluationRecords # <<>>
    /\ evaluationRecords[Len(evaluationRecords)].totalScore = 90
    /\ evaluationRecords[Len(evaluationRecords)].grade = "A"


---------------------------------------------------------------------------
\* the call c made whole, one call at a time, on the store S
Atomic(c, S) ==
    LET u == c.userId
        t == c.taskId
    IN  CASE c.op = "startTask" -> StartTask(S, u, t)
          [] c.op = "advanceDay" -> AdvanceDay(S, u, t)
          [] c.op = "completeTask" -> CompleteTask(S, u, t)
          [] c.op = "processIncoming" ->
                ProcessIncoming(S, u, t, c.args.productId, c.args.quantity, c.args.unitPrice,
                                c.args.divisor)
          [] c.op = "processOutgoing" ->
                ProcessOutgoing(S, u, t, c.args.productId, c.args.quantity, c.args.unitPrice,
                                c.args.divisor)
          [] c.op = "createPurchaseOrder" ->
                CreatePurchaseOrder(S, u, t, c.args.supplierId, c.args.items)
          [] c.op = "createSalesOrder" -> CreateSalesOrder(S, u, t, c.args.items)
          [] c.op = "cancelOrder" -> CancelOrder(S, c.args.orderId, u, t)


\* C22: a call whose storage call fails leaves the store exactly as it was
\* before the call began (the call ran alone)
C22_AtomicUnderFailure ==
    (Len(calls) = 1 /\ calls[1].result = "StorageError") => Store = calls[1].before


---------------------------------------------------------------------------
\* two tables hold the same rows, whatever their order
SameRows(a, b) ==
    /\ Len(a) = Len(b)
    /\ \A i \in DOMAIN a :
          Cardinality({j \in DOMAIN a : a[j] = a[i]}) = Cardinality({j \in DOMAIN b : b[j] = a[i]})

\* the orders without their ids, which name the order of insertion
WithoutId(os) ==
    [i \in DOMAIN os |-> [col \in DOMAIN os[i] \ {"id"} |-> os[i][col]]]

SameStore(A, B) ==
    /\ SameRows(A.progress, B.progress)
    /\ SameRows(A.inventory, B.inventory)
    /\ SameRows(WithoutId(A.orders), WithoutId(B.orders))
    /\ SameRows(A.financial, B.financial)
    /\ SameRows(A.evaluations, B.evaluations)

\* both calls of the run have ended, neither by a storage failure
BothEnded ==
    /\ Len(calls) = 2
    /\ \A i \in DOMAIN calls : ~InFlight(calls[i]) /\ calls[i].result # "StorageError"

\* the calls made whole one after the other, first then second, leave the
\* store and the results of the run
SerialOrder(first, second) ==
    LET a == Atomic(calls[first], calls[1].before)
        b == Atomic(calls[second], a.store)
    IN  /\ SameStore(Store, b.store)
        /\ calls[first].result = a.result
        /\ calls[second].result = b.result

Serializable == SerialOrder(1, 2) \/ SerialOrder(2, 1)

\* the pairs of calls: two purchases, or a day advance with a purchase or sale
RacingPair ==
    LET ops == {calls[i].op : i \in DOMAIN calls} IN
    \/ ops = {"createPurchaseOrder"}
    \/ ops \in {{"advanceDay", "createPurchaseOrder"}, {"advanceDay", "createSalesOrder"}}

\* C23: no lost updates.  When two purchases, or a day advance and a purchase
\* or sale, of one (userId, taskId) have run interleaved at their storage
\* calls, the store and the results are those of the two calls made one after
\* the other in some order, and currentBalance matches the ledger.
C23_NoLostUpdates ==
    (BothEnded /\ RacingPair) =>
        /\ Serializable
        /\ \A k \in Keys :
              HasProgress(Store, k[1], k[2]) =>
                  Balance(Store, k[1], k[2]) = LedgerBalance(Store, k[1], k[2])


---------------------------------------------------------------------------
\* C24: seeding happens once.  After two startTask calls of one (userId,
\* taskId), interleaved at their storage calls, have both returned, the key
\* has exactly one progress row and exactly one initial income record.
C24_SeededOnce ==
    (/\ BothEnded
     /\ \A i \in DOMAIN calls : calls[i].op = "startTask" /\ calls[i].result = "ok"
     /\ calls[1].userId = calls[2].userId
     /\ calls[1].taskId = calls[2].taskId) =>
        /\ Len(GetStudentProgress(Store, calls[1].userId, calls[1].taskId)) = 1
        /\ Len(InitialRecords(Store, calls[1].userId, calls[1].taskId)) = 1


---------------------------------------------------------------------------
\* The ledger keeps one record for every application of an order item: an
\* expense of category procurement for a purchase item, an income of category
\* sales for a sale item, of the item's quantity times its unit price.
Applications(S, u, t, category, amount) ==
    Len(SelectSeq(GetFinancialRecords(S, u, t),
                  LAMBDA r : r.category = category /\ r.amount = amount))

\* the number of items of that amount in the orders of the type
ItemsOfAmount(S, u, t, orderType, amount) ==
    LET os == SelectSeq(GetOrders(S, u, t), LAMBDA o : o.orderType = orderType)
    IN  SumSeq([i \in 1..Len(os) |->
                  Len(SelectSeq(os[i].orderItems,
                                LAMBDA item : item.quantity * item.unitPrice = amount))])

AppliedAtMostOnce(S, u, t) ==
    \A i \in 1..Len(S.financial) :
        LET r == S.financial[i] IN
        (r.userId = u /\ r.taskId = t) =>
            /\ r.category = "procurement" =>
                  Applications(S, u, t, "procurement", r.amount)
                      <= ItemsOfAmount(S, u, t, "purchase", r.amount)
            /\ r.category = "sales" =>
                  Applications(S, u, t, "sales", r.amount)
                      <= ItemsOfAmount(S, u, t, "sale", r.amount)

\* C25: each order is applied at most once.  processPurchaseOrder and
\* processSalesOrder reject an order that is not pending and change nothing;
\* after any sequence of order calls, calls that fail part-way among them, no
\* order item has been applied to the stock and the balance more than once.
C25_AppliedAtMostOnce ==
    [][/\ (/\ last'.op \in {"processPurchaseOrder", "processSalesOrder"}
           /\ OwnedOrder(last'.userId, last'.taskId, last'.args.orderId) # <<>>
           /\ orders[last'.args.orderId].status # "pending") =>
              (last'.result = "InvalidState" /\ StoreNext = Store)
       /\ \A k \in Keys : AppliedAtMostOnce(StoreNext, k[1], k[2])]_vars


---------------------------------------------------------------------------
\* the snapshot of the category, as a sequence of length 0 or 1
Snapshot(M, category) == Find(SelectSeq(M, LAMBDA r : r.category = category))

\* level + fluctuation clamped to 0..100, in tenths
ClampedTenths(level, fluctuation) == Max(0, Min(1000, 10 * level + fluctuation))

Distance(a, b) == IF a >= b THEN a - b ELSE b - a

\* C26: a tick on a category that has a snapshot computes from the stored
\* levels, whatever they are in 0..100: the new demandLevel and
\* competitionLevel are the stored ones plus the fluctuation, clamped and
\* rounded, so at most 10 away from the stored ones, and trendDirection
\* compares the new demand with the stored demand.
C26_TickFromStoredLevels ==
    [][(last'.op = "generateMarketData" /\ Snapshot(marketData, last'.args.category) # <<>>) =>
        LET old == Snapshot(marketData, last'.args.category)[1]
            new == Snapshot(marketData', last'.args.category)[1]
            demand == ClampedTenths(old.demandLevel, last'.args.demandFluctuation)
            competition == ClampedTenths(old.competitionLevel, last'.args.competitionFluctuation)
        IN  /\ new.demandLevel = MathRound(demand, 10)
            /\ new.competitionLevel = MathRound(competition, 10)
            /\ Distance(new.demandLevel, old.demandLevel) <= 10
            /\ Distance(new.competitionLevel, old.competitionLevel) <= 10
            /\ new.trendDirection =
                  (IF demand > 10 * old.demandLevel + 50 THEN "rising"
                   ELSE IF demand < 10 * old.demandLevel - 50 THEN "falling"
                   ELSE "stable")]_vars


---------------------------------------------------------------------------
\* the daily cost records of the key: one for every advanceDay that succeeded
DailyCostRecords(S, u, t) ==
    SelectSeq(GetFinancialRecords(S, u, t),
              LAMBDA r : r.recordType = "expense" /\ r.category = "operational"
                            /\ r.relatedOrderId = NoOrder)

\* C27: day advance terminates.  From a freshly started task of D days,
\* advanceDay succeeds while currentDay < D, each time adding one day, and
\* fails with AlreadyComplete once currentDay = D, so it succeeds exactly
\* D - 1 times; no other call changes currentDay, whatever calls come between.
C27_DayAdvanceTerminates ==
    [][\A k \in Keys :
        LET u == k[1]
            t == k[2]
            D == trainingTasks[t].durationDays
            day == Day(Store, u, t)
            dayNext == Day(StoreNext, u, t)
            advance == last'.op = "advanceDay" /\ last'.userId = u /\ last'.taskId = t
        IN  /\ HasProgress(StoreNext, u, t)
            /\ dayNext \in 1..D
            /\ Len(DailyCostRecords(StoreNext, u, t)) = dayNext - 1
            /\ (advance /\ day < D) => (last'.result = "ok" /\ dayNext = day + 1)
            /\ (advance /\ day = D) => (last'.result = "AlreadyComplete" /\ StoreNext = Store)
            /\ ~advance => dayNext = day]_vars

\* the third advanceDay of a three-day task is refused, a purchase or an
\* inventory call having come between the calls
C27_Witness ==
    /\ last.op = "advanceDay"
    /\ last.result = "AlreadyComplete"
    /\ trainingTasks[last.taskId].durationDays = 3
    /\ Day(Store, last.userId, last.taskId) = 3
    /\ Len(DailyCostRecords(Store, last.userId, last.taskId)) = 2
    /\ inventoryRecords # <<>>


---------------------------------------------------------------------------
(* The order interface: startTask, advanceDay, createPurchaseOrder,        *)
(* createSalesOrder, cancelOrder and completeTask, one call at a time.     *)
(* The items of a purchase are taken from the request body as they come    *)
(* (routes.ts:536-543), so their unit prices are numbers of any precision. *)

\* three units at 16.666, 49.998 in all: within the budget of 50.00
ThreeThirds ==
    <<PricedItem("p1", 1, 16666, 10), PricedItem("p1", 1, 16666, 10),
      PricedItem("p1", 1, 16666, 10)>>

InterfacePurchaseItemLists == PurchaseItemLists \cup {ThreeThirds}

InterfacePurchaseOrderCall ==
    \E u \in users, t \in DOMAIN trainingTasks, s \in SupplierIds,
       items \in InterfacePurchaseItemLists :
        Call("createPurchaseOrder", u, t, [supplierId |-> s, items |-> items],
             CreatePurchaseOrder(Store, u, t, s, items))

InterfaceNext ==
    \/ StartTaskCall
    \/ AdvanceDayCall
    \/ InterfacePurchaseOrderCall
    \/ CreateSalesOrderCall
    \/ CancelOrderCall
    \/ CompleteTaskCall

InterfaceSpec == Init /\ [][InterfaceNext]_vars

\* C28: in every state reached by startTask, advanceDay, createPurchaseOrder,
\* createSalesOrder, cancelOrder and completeTask, one call at a time, with a
\* budget >= 0, quantities > 0 and unit prices >= 0, the currentBalance of every
\* progress row is >= 0.
C28_BalanceNonNegative ==
    \A row \in {studentProgress[i] : i \in DOMAIN studentProgress} :
        row.currentBalance >= 0


\* C29: the order returned by a successful createPurchaseOrder or
\* createSalesOrder agrees with the stored order at the moment of return: its
\* status is completed.
C29_ReturnedOrderIsStored ==
    (last.op \in {"createPurchaseOrder", "createSalesOrder"} /\ last.result = "ok")
        => LET returned == last.value[1]
               stored == FindOrder(Store, last.userId, last.taskId, returned.id)[1]
           IN  /\ returned.status = "completed"
               /\ returned.status = stored.status


\* the columns of the progress row that completeTask is to leave as they were
KeptColumns ==
    {"currentBalance", "currentDay", "inventoryValue", "totalRevenue", "totalProfit",
     "kpiScores"}

\* a successful completeTask appends one evaluation record, leaves the kept
\* columns of every progress row and the number of rows as they were, and
\* touches no inventory, order or financial record
CompleteTaskKeepsTheRest ==
    /\ Len(evaluationRecords') = Len(evaluationRecords) + 1
    /\ SubSeq(evaluationRecords', 1, Len(evaluationRecords)) = evaluationRecords
    /\ evaluationRecords'[Len(evaluationRecords')] = last'.value[1]
    /\ Len(studentProgress') = Len(studentProgress)
    /\ \A i \in DOMAIN studentProgress :
          /\ studentProgress'[i].userId = studentProgress[i].userId
          /\ studentProgress'[i].taskId = studentProgress[i].taskId
          /\ \A c \in KeptColumns : studentProgress'[i][c] = studentProgress[i][c]
    /\ inventoryRecords' = inventoryRecords
    /\ orders' = orders
    /\ financialRecords' = financialRecords

\* C30: a successful completeTask appends one EvaluationRecord and sets the
\* status of the progress row to completed, and changes nothing else:
\* currentBalance, currentDay, inventoryValue, totalRevenue, totalProfit and
\* the stored kpiScores keep their values and no inventory, order or financial
\* record is touched; the call is accepted at any currentDay.
C30_CompleteTaskFrame ==
    [][(last'.op = "completeTask" /\ nops' = nops + 1)
        => /\ HasProgress(Store, last'.userId, last'.taskId) => last'.result = "ok"
           /\ last'.result = "ok" =>
                /\ CompleteTaskKeepsTheRest
                /\ \E i \in DOMAIN studentProgress' :
                      /\ studentProgress'[i].userId = last'.userId
                      /\ studentProgress'[i].taskId = last'.taskId
                      /\ "status" \in DOMAIN studentProgress'[i]
                      /\ studentProgress'[i].status = "completed"]_vars


====
